---- MODULE Spec2Model ----
(***************************************************************************)
(* Model of the adaptive rate-limited NVD fetch layer of youMightWanna:     *)
(* the sliding-window limiter (waitForRateLimit), the retrying executor     *)
(* (checkNvdPatchStatus, the page loop of fetchRecentCves), the throttle    *)
(* state machine (cache.ts) and the run that drives them (main).            *)
(***************************************************************************)
EXTENDS Integers, Sequences, FiniteSets, TLC

VARIABLES
    cfg,                \* the run's inputs: NVD_API_KEY, S3_BUCKET, --limit, number of CVEs
    s3Record,           \* the persisted throttle record: <<>> when absent, else <<JSON text>>
    now,                \* Date.now(), in ms
    ticks,              \* number of free clock ticks taken so far
    requestTimestamps,  \* nvd.ts: the shared dispatch timestamps, oldest first
    stat,               \* history counters: timestamps recorded, NVD calls issued, failures
                        \* injected, throttle transitions applied, saves attempted
    throttleState,      \* index.ts: the run's ThrottleState
    had429Error,        \* index.ts: the run's 429 flag
    pcMain,             \* position of main()
    req,                \* one requester per single lookup (1..) and the bulk paginator (0)
    bulk,               \* the local variables of fetchRecentCves
    recentResult,       \* what fetchRecentCves returned to main: <<>> until it returns
    collect,            \* the local variables of checkAllCves
    thr                 \* the throttle transition under test: input, output, operation

vars == <<cfg, s3Record, now, ticks, requestTimestamps, stat, throttleState,
          had429Error, pcMain, req, bulk, recentResult, collect, thr>>

-----------------------------------------------------------------------------
(* Program constants *)

MAX_RETRIES == 3
RETRY_DELAY_MS == 5000
RESULTS_PER_PAGE == 2000
RATE_LIMIT_WINDOW_MS == 30000
RATE_LIMIT_BUFFER_MS == 100
RateLimitWithKey == 50
RateLimitWithoutKey == 5
ConcurrencyWithKey == 2
ConcurrencyWithoutKey == 1
DefaultMaxResults == 5000
LimitedMaxResultsFactor == 10
LimitedMaxResultsCap == 500

\* nvd.ts: const RATE_LIMIT_REQUESTS = API_KEY ? 50 : 5
RATE_LIMIT_REQUESTS(apiKey) == IF apiKey THEN RateLimitWithKey ELSE RateLimitWithoutKey

\* types.ts: THROTTLE_BOUNDS
THROTTLE_BOUNDS ==
    [ min_concurrency   |-> 1,
      max_concurrency   |-> 1,
      min_delay_ms      |-> 650,
      max_delay_ms      |-> 10000,
      speedup_threshold |-> 3,
      concurrency_step  |-> 0,
      delay_step_ms     |-> 50 ]

\* types.ts: DEFAULT_THROTTLE (a timestamp is <<>> for null, <<t>> when set)
DEFAULT_THROTTLE ==
    [ concurrency           |-> 1,
      delay_ms              |-> 650,
      last_429_at           |-> <<>>,
      last_success_at       |-> <<>>,
      consecutive_successes |-> 0,
      consecutive_429s      |-> 0 ]

-----------------------------------------------------------------------------
(* Bounds of the model *)

MaxCves == 2          \* single lookups of an ordinary run
RaceCves == 52        \* single lookups of a run that fills the window of 50
MaxTicks == 1         \* free clock ticks
MaxOvertake == 0      \* how many older lookups in flight a response may overtake
TickMs == 200         \* length of one free tick
MaxFailures == 4      \* non-success responses and transport errors injected in a run
MaxCounter == 3       \* largest counter value of a throttle state drawn as input

-----------------------------------------------------------------------------
(* Arithmetic helpers *)

Max(a, b) == IF a >= b THEN a ELSE b
Min(a, b) == IF a <= b THEN a ELSE b

RECURSIVE Pow2(_)
Pow2(k) == IF k <= 0 THEN 1 ELSE 2 * Pow2(k - 1)

-----------------------------------------------------------------------------
(* cache.ts: the throttle transitions.  Two versions of cache.ts are in the  *)
(* source: the one that adjusts concurrency and delay_ms (throttleBackoff,   *)
(* throttleSpeedup) and the concurrency-only one (suffix ConcurrencyOnly).   *)

\* Math.min written where Math.max was meant: the floor becomes a ceiling.
throttleBackoffNoFloor(state, t) ==
    LET s1 == [state EXCEPT !.last_429_at = <<t>>,
                            !.consecutive_429s = @ + 1,
                            !.consecutive_successes = 0]
        s2 == IF s1.concurrency > THROTTLE_BOUNDS.min_concurrency
              THEN [s1 EXCEPT !.concurrency =
                        Min(THROTTLE_BOUNDS.min_concurrency,
                            s1.concurrency - THROTTLE_BOUNDS.concurrency_step)]
              ELSE s1
    IN  IF s2.delay_ms < THROTTLE_BOUNDS.max_delay_ms
        THEN [s2 EXCEPT !.delay_ms =
                  Min(THROTTLE_BOUNDS.max_delay_ms,
                      s2.delay_ms + THROTTLE_BOUNDS.delay_step_ms * s2.consecutive_429s)]
        ELSE s2

\* The delay step multiplied by the counter before its increment.
throttleBackoffOldCount(state, t) ==
    LET s1 == [state EXCEPT !.last_429_at = <<t>>,
                            !.consecutive_429s = @ + 1,
                            !.consecutive_successes = 0]
        s2 == IF s1.concurrency > THROTTLE_BOUNDS.min_concurrency
              THEN [s1 EXCEPT !.concurrency =
                        Max(THROTTLE_BOUNDS.min_concurrency,
                            s1.concurrency - THROTTLE_BOUNDS.concurrency_step)]
              ELSE s1
    IN  IF s2.delay_ms < THROTTLE_BOUNDS.max_delay_ms
        THEN [s2 EXCEPT !.delay_ms =
                  Min(THROTTLE_BOUNDS.max_delay_ms,
                      s2.delay_ms + THROTTLE_BOUNDS.delay_step_ms * state.consecutive_429s)]
        ELSE s2

\* The delay is not raised.
throttleBackoffKeepsDelay(state, t) ==
    LET s1 == [state EXCEPT !.last_429_at = <<t>>,
                            !.consecutive_429s = @ + 1,
                            !.consecutive_successes = 0]
    IN  IF s1.concurrency > THROTTLE_BOUNDS.min_concurrency
        THEN [s1 EXCEPT !.concurrency =
                  Max(THROTTLE_BOUNDS.min_concurrency,
                      s1.concurrency - THROTTLE_BOUNDS.concurrency_step)]
        ELSE s1

\* The delay is raised without the ceiling of max_delay_ms.
throttleBackoffNoDelayCeiling(state, t) ==
    LET s1 == [state EXCEPT !.last_429_at = <<t>>,
                            !.consecutive_429s = @ + 1,
                            !.consecutive_successes = 0]
        s2 == IF s1.concurrency > THROTTLE_BOUNDS.min_concurrency
              THEN [s1 EXCEPT !.concurrency =
                        Max(THROTTLE_BOUNDS.min_concurrency,
                            s1.concurrency - THROTTLE_BOUNDS.concurrency_step)]
              ELSE s1
    IN  IF s2.delay_ms < THROTTLE_BOUNDS.max_delay_ms
        THEN [s2 EXCEPT !.delay_ms =
                  s2.delay_ms + THROTTLE_BOUNDS.delay_step_ms * s2.consecutive_429s]
        ELSE s2

\* The objects of a call of a transition.  A heap gives each object its
\* properties; "state" is the object the caller passes, "newState" the object the
\* spread creates.

\* The transition works on the object it was given: const newState = state.
SpreadAliased(heap, state) == [heap |-> heap, newState |-> state]

\* cache.ts:88, 111, 230 and 259: const newState = { ...state }: a new object with
\* the properties of state
Spread(heap, state) ==
    [heap |-> ("newState" :> heap[state]) @@ heap, newState |-> "newState"]

\* cache.ts:228-254 on the heap: the copy, the assignments to newState, and the
\* object returned
throttleBackoffOn(heap, state, t) ==
    LET c  == Spread(heap, state)
        n  == c.newState
        h1 == [c.heap EXCEPT ![n].last_429_at = <<t>>,
                             ![n].consecutive_429s = @ + 1,
                             ![n].consecutive_successes = 0]
    IN  [heap |-> [h1 EXCEPT
                     ![n].concurrency =
                         IF @ > THROTTLE_BOUNDS.min_concurrency
                         THEN Max(THROTTLE_BOUNDS.min_concurrency,
                                  @ - THROTTLE_BOUNDS.concurrency_step)
                         ELSE @,
                     ![n].delay_ms =
                         IF @ < THROTTLE_BOUNDS.max_delay_ms
                         THEN Min(THROTTLE_BOUNDS.max_delay_ms,
                                  @ + THROTTLE_BOUNDS.delay_step_ms * h1[n].consecutive_429s)
                         ELSE @],
         returned |-> n]

\* cache.ts:228-254: the value of throttleBackoff(state)
throttleBackoff(state, t) ==
    LET r == throttleBackoffOn(("state" :> state), "state", t)
    IN  r.heap[r.returned]

\* cache.ts:86-106 on the heap
throttleBackoffConcurrencyOnly(heap, state, t) ==
    LET c == Spread(heap, state)
        n == c.newState
    IN  [heap |-> [c.heap EXCEPT
                     ![n].last_429_at = <<t>>,
                     ![n].consecutive_429s = @ + 1,
                     ![n].consecutive_successes = 0,
                     ![n].concurrency =
                         IF @ > THROTTLE_BOUNDS.min_concurrency
                         THEN Max(THROTTLE_BOUNDS.min_concurrency,
                                  @ - THROTTLE_BOUNDS.concurrency_step)
                         ELSE @],
         returned |-> n]

\* The delay lowered with Math.min where Math.max was meant: the floor is lost.
throttleSpeedupNoDelayFloor(state, t) ==
    LET s1 == [state EXCEPT !.last_success_at = <<t>>,
                            !.consecutive_successes = @ + 1,
                            !.consecutive_429s = 0]
    IN  IF s1.consecutive_successes < THROTTLE_BOUNDS.speedup_threshold
        THEN s1
        ELSE LET s2 == [s1 EXCEPT !.consecutive_successes = 0]
                 s3 == IF s2.concurrency < THROTTLE_BOUNDS.max_concurrency
                       THEN [s2 EXCEPT !.concurrency =
                                 Min(THROTTLE_BOUNDS.max_concurrency,
                                     s2.concurrency + THROTTLE_BOUNDS.concurrency_step)]
                       ELSE s2
             IN  IF s3.delay_ms > THROTTLE_BOUNDS.min_delay_ms
                 THEN [s3 EXCEPT !.delay_ms = s3.delay_ms - 2 * THROTTLE_BOUNDS.delay_step_ms]
                 ELSE s3

\* The success counter left as it is when the threshold is reached.
throttleSpeedupKeepsCount(state, t) ==
    LET s1 == [state EXCEPT !.last_success_at = <<t>>,
                            !.consecutive_successes = @ + 1,
                            !.consecutive_429s = 0]
    IN  IF s1.consecutive_successes < THROTTLE_BOUNDS.speedup_threshold
        THEN s1
        ELSE LET s3 == IF s1.concurrency < THROTTLE_BOUNDS.max_concurrency
                       THEN [s1 EXCEPT !.concurrency =
                                 Min(THROTTLE_BOUNDS.max_concurrency,
                                     s1.concurrency + THROTTLE_BOUNDS.concurrency_step)]
                       ELSE s1
             IN  IF s3.delay_ms > THROTTLE_BOUNDS.min_delay_ms
                 THEN [s3 EXCEPT !.delay_ms =
                           Max(THROTTLE_BOUNDS.min_delay_ms,
                               s3.delay_ms - THROTTLE_BOUNDS.delay_step_ms)]
                 ELSE s3

\* cache.ts:257-291 on the heap: the copy, the assignments to newState, and the
\* object returned
throttleSpeedupOn(heap, state, t) ==
    LET c  == Spread(heap, state)
        n  == c.newState
        h1 == [c.heap EXCEPT ![n].last_success_at = <<t>>,
                             ![n].consecutive_successes = @ + 1,
                             ![n].consecutive_429s = 0]
    IN  IF h1[n].consecutive_successes < THROTTLE_BOUNDS.speedup_threshold
        THEN [heap |-> h1, returned |-> n]
        ELSE [heap |-> [h1 EXCEPT
                          ![n].consecutive_successes = 0,
                          ![n].concurrency =
                              IF @ < THROTTLE_BOUNDS.max_concurrency
                              THEN Min(THROTTLE_BOUNDS.max_concurrency,
                                       @ + THROTTLE_BOUNDS.concurrency_step)
                              ELSE @,
                          ![n].delay_ms =
                              IF @ > THROTTLE_BOUNDS.min_delay_ms
                              THEN Max(THROTTLE_BOUNDS.min_delay_ms,
                                       @ - THROTTLE_BOUNDS.delay_step_ms)
                              ELSE @],
              returned |-> n]

\* cache.ts:257-291: the value of throttleSpeedup(state)
throttleSpeedup(state, t) ==
    LET r == throttleSpeedupOn(("state" :> state), "state", t)
    IN  r.heap[r.returned]

\* cache.ts:109-139 on the heap
throttleSpeedupConcurrencyOnly(heap, state, t) ==
    LET c  == Spread(heap, state)
        n  == c.newState
        h1 == [c.heap EXCEPT ![n].last_success_at = <<t>>,
                             ![n].consecutive_successes = @ + 1,
                             ![n].consecutive_429s = 0]
    IN  IF h1[n].consecutive_successes < THROTTLE_BOUNDS.speedup_threshold
        THEN [heap |-> h1, returned |-> n]
        ELSE IF h1[n].concurrency >= THROTTLE_BOUNDS.max_concurrency
        THEN [heap |-> h1, returned |-> n]
        ELSE [heap |-> [h1 EXCEPT
                          ![n].consecutive_successes = 0,
                          ![n].concurrency =
                              Min(THROTTLE_BOUNDS.max_concurrency,
                                  @ + THROTTLE_BOUNDS.concurrency_step)],
              returned |-> n]

-----------------------------------------------------------------------------
(* nvd.ts: the sliding-window limiter *)

\* nvd.ts:714-716 and 729-731: drop from the front what is older than windowStart
\* Nothing is removed from the front.
PruneNothing(ts, windowStart) == ts

RECURSIVE Prune(_, _)
Prune(ts, windowStart) ==
    IF Len(ts) > 0 /\ ts[1] < windowStart
    THEN Prune(Tail(ts), windowStart)
    ELSE ts

\* The wait without the 100 ms buffer.
WaitTimeNoBuffer(ts, t) == ts[1] + RATE_LIMIT_WINDOW_MS - t

\* nvd.ts:721: the wait computed when the window is full
WaitTime(ts, t) == ts[1] + RATE_LIMIT_WINDOW_MS - t + RATE_LIMIT_BUFFER_MS

\* nvd.ts:710-725: the first half of waitForRateLimit, up to its sleep.
\* sleeps: whether the caller is suspended; timestamps: the sequence it leaves.
LimiterEnter(ts, t, apiKey) ==
    LET pruned == Prune(ts, t - RATE_LIMIT_WINDOW_MS)
        full   == Len(pruned) >= RATE_LIMIT_REQUESTS(apiKey)
    IN  [ timestamps |-> pruned,
          full       |-> full,
          sleeps     |-> full /\ WaitTime(pruned, t) > 0,
          waitTime   |-> IF full THEN WaitTime(pruned, t) ELSE 0 ]

\* nvd.ts:726-735: after the sleep, prune with the new time and record the dispatch
LimiterRecordAfterWait(ts, t) == Append(Prune(ts, t - RATE_LIMIT_WINDOW_MS), t)

\* The dispatch recorded at the front (unshift in place of push).
LimiterRecordAtFront(ts, t) == <<t>> \o ts

\* nvd.ts:735: record the dispatch when the window was not full
LimiterRecord(ts, t) == Append(ts, t)

-----------------------------------------------------------------------------
(* nvd.ts: results of a single lookup *)

NULL == <<>>
Some(x) == <<x>>

\* error messages are sequences of pieces of text, cut so that the digits 429 are a
\* piece of their own wherever the text holds them; String.includes('429') finds
\* them anywhere in the text, also inside the quoted beginning of a response body
Includes429(msg) == \E k \in 1..Len(msg) : msg[k] = "429"

MsgHttp(status) == <<"HTTP", ToString(status)>>
MsgHttp429 == <<"HTTP", "429", "after", ToString(MAX_RETRIES), "retries">>
\* nvd.ts:770: the SyntaxError of response.json(): it quotes the beginning of the body
MsgJson(bodyStart) ==
    <<"Unexpected", "token">> \o bodyStart \o <<"is", "not", "valid", "JSON">>

\* nvd.ts:773-783: the ERROR result built by the catch block
ErrorResult(msg) ==
    [ status |-> "ERROR", has_patch |-> FALSE, has_vendor_advisory |-> FALSE,
      has_mitigation |-> FALSE, patch_urls |-> <<>>, cvss_score |-> NULL,
      cvss_severity |-> NULL, nvd_published |-> NULL, error |-> Some(msg) ]

\* entry.cvssData?.field ?? null; an absent cvssData or field is NULL
DataField(entry, field) ==
    IF entry.cvssData = NULL THEN NULL ELSE entry.cvssData[1][field]

\* The first version that has a base score is taken, not the first present.
CvssOfFirstWithScore(metrics) ==
    LET scored(es) == Len(es) > 0 /\ DataField(es[1], "baseScore") # NULL
    IN  IF scored(metrics.cvssMetricV31)
        THEN [ baseScore    |-> DataField(metrics.cvssMetricV31[1], "baseScore"),
               baseSeverity |-> DataField(metrics.cvssMetricV31[1], "baseSeverity") ]
        ELSE IF scored(metrics.cvssMetricV30)
        THEN [ baseScore    |-> DataField(metrics.cvssMetricV30[1], "baseScore"),
               baseSeverity |-> DataField(metrics.cvssMetricV30[1], "baseSeverity") ]
        ELSE IF scored(metrics.cvssMetricV2)
        THEN [ baseScore    |-> DataField(metrics.cvssMetricV2[1], "baseScore"),
               baseSeverity |-> metrics.cvssMetricV2[1].baseSeverity ]
        ELSE [baseScore |-> NULL, baseSeverity |-> NULL]

\* nvd.ts:807-818: first entry of the first metric version present; the v2
\* severity is a field of the entry itself, not of its cvssData
CvssOf(metrics) ==
    IF Len(metrics.cvssMetricV31) > 0
    THEN [ baseScore    |-> DataField(metrics.cvssMetricV31[1], "baseScore"),
           baseSeverity |-> DataField(metrics.cvssMetricV31[1], "baseSeverity") ]
    ELSE IF Len(metrics.cvssMetricV30) > 0
    THEN [ baseScore    |-> DataField(metrics.cvssMetricV30[1], "baseScore"),
           baseSeverity |-> DataField(metrics.cvssMetricV30[1], "baseSeverity") ]
    ELSE IF Len(metrics.cvssMetricV2) > 0
    THEN [ baseScore    |-> DataField(metrics.cvssMetricV2[1], "baseScore"),
           baseSeverity |-> metrics.cvssMetricV2[1].baseSeverity ]
    ELSE [baseScore |-> NULL, baseSeverity |-> NULL]

\* nvd.ts:1070-1085: the CVSS extraction of parseRecentCve (same rule, own copy);
\* the other fields of a RecentCve are not modelled
parseRecentCve(cve) ==
    LET metrics == cve.metrics
        cvss ==
          IF Len(metrics.cvssMetricV31) > 0
          THEN [ baseScore    |-> DataField(metrics.cvssMetricV31[1], "baseScore"),
                 baseSeverity |-> DataField(metrics.cvssMetricV31[1], "baseSeverity") ]
          ELSE IF Len(metrics.cvssMetricV30) > 0
          THEN [ baseScore    |-> DataField(metrics.cvssMetricV30[1], "baseScore"),
                 baseSeverity |-> DataField(metrics.cvssMetricV30[1], "baseSeverity") ]
          ELSE IF Len(metrics.cvssMetricV2) > 0
          THEN [ baseScore    |-> DataField(metrics.cvssMetricV2[1], "baseScore"),
                 baseSeverity |-> metrics.cvssMetricV2[1].baseSeverity ]
          ELSE [baseScore |-> NULL, baseSeverity |-> NULL]
    IN  [cvss_score |-> cvss.baseScore, cvss_severity |-> cvss.baseSeverity]

\* The urls of the references tagged Patch, last reference first.
PatchUrlsReversed(refs) ==
    LET tagged == SelectSeq(refs, LAMBDA r : "Patch" \in r.tags)
    IN  [k \in 1..Len(tagged) |-> tagged[Len(tagged) + 1 - k].url]

\* nvd.ts:820-834: the urls of the references tagged Patch, in reference order
RECURSIVE PatchUrls(_)
PatchUrls(refs) ==
    IF refs = <<>> THEN <<>>
    ELSE IF "Patch" \in Head(refs).tags
         THEN <<Head(refs).url>> \o PatchUrls(Tail(refs))
         ELSE PatchUrls(Tail(refs))

HasTag(refs, tag) == \E k \in 1..Len(refs) : tag \in refs[k].tags

\* The advisory and mitigation tags are tested before the Patch tag.
parseNvdCveResponseAdvisoryFirst(data) ==
    LET some == Len(data.vulnerabilities) > 0
        cve  == data.vulnerabilities[1]
        refs == IF some THEN cve.references ELSE <<>>
        cvss == IF some THEN CvssOf(cve.metrics)
                ELSE [baseScore |-> NULL, baseSeverity |-> NULL]
        hasPatch == HasTag(refs, "Patch")
        hasVendorAdvisory == HasTag(refs, "Vendor Advisory")
        hasMitigation == HasTag(refs, "Mitigation")
    IN  [ status |-> IF hasVendorAdvisory \/ hasMitigation THEN "MITIGATION_ONLY"
                     ELSE IF hasPatch THEN "PATCHED"
                     ELSE "UNPATCHED",
          has_patch |-> hasPatch,
          has_vendor_advisory |-> hasVendorAdvisory,
          has_mitigation |-> hasMitigation,
          patch_urls |-> PatchUrls(refs),
          cvss_score |-> cvss.baseScore,
          cvss_severity |-> cvss.baseSeverity,
          nvd_published |-> IF some /\ cve.published # NULL
                            THEN Some(Head(cve.published[1])) ELSE NULL,
          error |-> NULL ]

\* nvd.ts:790-857
\* (a published date is the sequence of the parts of its text between the letters
\* T, "2024-01-01T10:15:08.657" being <<"2024-01-01", "10:15:08.657">>; split('T')[0]
\* is its first part)
parseNvdCveResponse(data) ==
    LET some == Len(data.vulnerabilities) > 0
        cve  == data.vulnerabilities[1]
        refs == IF some THEN cve.references ELSE <<>>
        cvss == IF some THEN CvssOf(cve.metrics)
                ELSE [baseScore |-> NULL, baseSeverity |-> NULL]
        hasPatch == HasTag(refs, "Patch")
        hasVendorAdvisory == HasTag(refs, "Vendor Advisory")
        hasMitigation == HasTag(refs, "Mitigation")
    IN  [ status |-> IF hasPatch THEN "PATCHED"
                     ELSE IF hasVendorAdvisory \/ hasMitigation THEN "MITIGATION_ONLY"
                     ELSE "UNPATCHED",
          has_patch |-> hasPatch,
          has_vendor_advisory |-> hasVendorAdvisory,
          has_mitigation |-> hasMitigation,
          patch_urls |-> PatchUrls(refs),
          cvss_score |-> cvss.baseScore,
          cvss_severity |-> cvss.baseSeverity,
          nvd_published |-> IF some /\ cve.published # NULL
                            THEN Some(Head(cve.published[1])) ELSE NULL,
          error |-> NULL ]

-----------------------------------------------------------------------------
(* What the network can answer *)

NoMetrics == [cvssMetricV31 |-> <<>>, cvssMetricV30 |-> <<>>, cvssMetricV2 |-> <<>>]

\* a single-CVE response body whose first reference is tagged Patch
BodyPatched ==
    [ vulnerabilities |->
        << [ references |-> << [tags |-> {"Patch", "Vendor Advisory"}, url |-> "u1"] >>,
             metrics    |-> [NoMetrics EXCEPT !.cvssMetricV31 =
                                << [ cvssData |-> Some([ baseScore    |-> Some(98),
                                                          baseSeverity |-> Some("CRITICAL") ]),
                                      baseSeverity |-> NULL ] >>],
             published  |-> Some(<<"2024-01-01", "10:15:08.657">>) ] >> ]

StatusOk(status) == status >= 200 /\ status <= 299

\* responses to a single lookup: a parsable 200, an unparsable 200, 429, another
\* non-2xx status, and a transport error (timeout, connection failure)
LookupOutcomes ==
    { [kind |-> "http", status |-> 200, parsable |-> TRUE,  message |-> <<>>],
      [kind |-> "http", status |-> 200, parsable |-> FALSE,
       message |-> MsgJson(<<"<html>">>)],
      [kind |-> "http", status |-> 200, parsable |-> FALSE,
       message |-> MsgJson(<<"<h1>", "429", "</h1>">>)],
      [kind |-> "http", status |-> 429, parsable |-> TRUE,  message |-> <<>>],
      [kind |-> "http", status |-> 503, parsable |-> TRUE,  message |-> <<>>],
      [kind |-> "transport", status |-> 0, parsable |-> FALSE, message |-> <<"fetch", "failed">>] }

Is429(o) == o.kind = "http" /\ o.status = 429
IsOk(o) == o.kind = "http" /\ StatusOk(o.status)

-----------------------------------------------------------------------------
(* nvd.ts: the retrying executor *)

\* The off-by-one of a retry test written with <=.
Retry429OneMore(retryCount) == retryCount <= MAX_RETRIES

\* nvd.ts:757 and 1008: if (retryCount < MAX_RETRIES)
Retry429(retryCount) == retryCount < MAX_RETRIES

\* A linear backoff in place of the exponential one.
RetryDelayLinear(retryCount) == RETRY_DELAY_MS * (retryCount + 1)

\* nvd.ts:758 and 1009: RETRY_DELAY_MS * Math.pow(2, retryCount)
RetryDelay(retryCount) == RETRY_DELAY_MS * Pow2(retryCount)

\* The retried attempt issued without passing the limiter again.
RetryEntrySkipsLimiter == "acquired"

\* nvd.ts:761 and 1013: the retry starts over at waitForRateLimit (748, 999)
RetryEntry == "limiter"

\* A catch block that lets the error out.
LookupCatchRethrows(msg) == [threw |-> TRUE, value |-> ErrorResult(msg)]

\* nvd.ts:772-784: the catch block of checkNvdPatchStatus returns an ERROR result
LookupCatch(msg) == [threw |-> FALSE, value |-> ErrorResult(msg)]

\* nvd.ts:756-762: a single lookup is retried on 429 only
LookupRetries(o, retryCount) == Is429(o) /\ Retry429(retryCount)

\* nvd.ts:763, 767, 770, 782: the message of the error the catch block receives
LookupFailureMsg(o) ==
    IF o.kind = "transport" THEN o.message
    ELSE IF o.status = 429 THEN MsgHttp429
    ELSE IF ~StatusOk(o.status) THEN MsgHttp(o.status)
    ELSE o.message

\* nvd.ts:766-784: how a lookup that is not retried ends
\* nvd.ts:756-784: what checkNvdPatchStatus resolves with when it does not retry
\* and the body of the response, when it parses as JSON, is data
LookupResult(o, data) ==
    IF IsOk(o) /\ o.parsable
    THEN [threw |-> FALSE, value |-> parseNvdCveResponse(data)]
    ELSE LookupCatch(LookupFailureMsg(o))

\* A page loop that gives up on the first failure that is not a 429.
PageCatchNeverRetries(retryCount) == FALSE

\* The catch block retries once more, at retryCount = MAX_RETRIES too.
PageCatchRetriesOneMore(retryCount) == retryCount <= MAX_RETRIES

\* nvd.ts:1024-1029: the catch block of the page loop retries until MAX_RETRIES
PageCatchRetries(retryCount) == retryCount < MAX_RETRIES

\* nvd.ts:1029: sleep(RETRY_DELAY_MS * Math.pow(2, retryCount)), retryCount already incremented
PageCatchDelay(retryCount) == RETRY_DELAY_MS * Pow2(retryCount)

\* A paginator that hands back what it has when a page fails.
PageFailureSalvages(allCves, had429) ==
    [threw |-> FALSE, value |-> Some([cves |-> allCves, had429 |-> had429])]

\* nvd.ts:1026: throw e; fetchRecentCves rejects and returns nothing
PageFailure(allCves, had429) == [threw |-> TRUE, value |-> NULL]

\* nvd.ts:1061: return { cves: allCves, had429 }
PageReturn(allCves, had429) ==
    [threw |-> FALSE, value |-> Some([cves |-> allCves, had429 |-> had429])]

\* nvd.ts:996: while (retryCount <= MAX_RETRIES)
PageLoopContinues(retryCount) == retryCount <= MAX_RETRIES

\* nvd.ts:1033-1039: the retry loop was left by its condition.  With no response
\* the call throws 'Failed to fetch after retries'; with the response of a failed
\* attempt, response.json() either throws or yields a body without entries, which
\* ends the paging with what was collected.
PageLoopExit(r, b) ==
    { [r EXCEPT !.pc = "threw", !.last = "exhausted",
                !.out = Some(PageFailure(b.allCves, b.had429))] }
    \cup
    ( IF b.response = NULL THEN {}
      ELSE { [r EXCEPT !.pc = "done", !.last = "exhausted",
                       !.out = Some(PageReturn(b.allCves, b.had429))] } )

-----------------------------------------------------------------------------
(* cache.ts: the persisted throttle record.  The S3 object holds the JSON text of *)
(* the state: a number is written as its sign and decimal digits, a timestamp as *)
(* a string, an absent timestamp as null.                                         *)

RECURSIVE Digits(_)
Digits(n) == IF n < 10 THEN <<n>> ELSE Digits(n \div 10) \o <<n % 10>>

RECURSIVE DigitsValue(_)
DigitsValue(ds) ==
    IF ds = <<>> THEN 0
    ELSE 10 * DigitsValue(SubSeq(ds, 1, Len(ds) - 1)) + ds[Len(ds)]

\* JSON.stringify of a number, of a string | null
JsonNumber(n) ==
    [t |-> "num", neg |-> n < 0, digits |-> Digits(IF n < 0 THEN -n ELSE n), s |-> 0]
JsonStringOrNull(v) ==
    IF v = <<>> THEN [t |-> "null", neg |-> FALSE, digits |-> <<>>, s |-> 0]
    ELSE [t |-> "str", neg |-> FALSE, digits |-> <<>>, s |-> v[1]]

\* JSON.parse of a number, of a string | null
ParseNumber(tok) == IF tok.neg THEN -DigitsValue(tok.digits) ELSE DigitsValue(tok.digits)
ParseStringOrNull(tok) == IF tok.t = "null" THEN <<>> ELSE <<tok.s>>

\* A JSON.stringify that writes every timestamp as null.
JsonStringifyDropsTimestamps(state) ==
    [ concurrency           |-> JsonNumber(state.concurrency),
      delay_ms              |-> JsonNumber(state.delay_ms),
      last_429_at           |-> JsonStringOrNull(<<>>),
      last_success_at       |-> JsonStringOrNull(<<>>),
      consecutive_successes |-> JsonNumber(state.consecutive_successes),
      consecutive_429s      |-> JsonNumber(state.consecutive_429s) ]

\* cache.ts:187: JSON.stringify(data, null, 2) of a ThrottleState
JsonStringify(state) ==
    [ concurrency           |-> JsonNumber(state.concurrency),
      delay_ms              |-> JsonNumber(state.delay_ms),
      last_429_at           |-> JsonStringOrNull(state.last_429_at),
      last_success_at       |-> JsonStringOrNull(state.last_success_at),
      consecutive_successes |-> JsonNumber(state.consecutive_successes),
      consecutive_429s      |-> JsonNumber(state.consecutive_429s) ]

\* cache.ts:168: JSON.parse(body) of a ThrottleState
JsonParse(body) ==
    [ concurrency           |-> ParseNumber(body.concurrency),
      delay_ms              |-> ParseNumber(body.delay_ms),
      last_429_at           |-> ParseStringOrNull(body.last_429_at),
      last_success_at       |-> ParseStringOrNull(body.last_success_at),
      consecutive_successes |-> ParseNumber(body.consecutive_successes),
      consecutive_429s      |-> ParseNumber(body.consecutive_429s) ]

\* cache.ts:160-177: the stored object parsed; null when there is none, and null
\* when the read fails: GetObject throws, the body is empty or is no JSON text
getObject(object, readOk) ==
    IF object = <<>> \/ ~readOk THEN <<>> ELSE <<JsonParse(object[1])>>

\* cache.ts:179-196: the object a successful write leaves in the bucket
putObject(state) == <<JsonStringify(state)>>

-----------------------------------------------------------------------------
(* cache.ts: loading the persisted throttle record *)

\* A load that corrects only the field found out of bounds.
loadThrottleStateFixesField(record) ==
    IF record = NULL THEN DEFAULT_THROTTLE
    ELSE [record[1] EXCEPT
            !.concurrency = Min(THROTTLE_BOUNDS.max_concurrency, @),
            !.delay_ms = Max(THROTTLE_BOUNDS.min_delay_ms, @)]

\* cache.ts:200-218: a record out of bounds is discarded for the defaults
loadThrottleState(record) ==
    IF record = NULL THEN DEFAULT_THROTTLE
    ELSE IF record[1].concurrency > THROTTLE_BOUNDS.max_concurrency THEN DEFAULT_THROTTLE
    ELSE IF record[1].delay_ms < THROTTLE_BOUNDS.min_delay_ms THEN DEFAULT_THROTTLE
    ELSE record[1]

\* cache.ts:60-76: the concurrency of the record is clamped into its bounds
loadThrottleStateConcurrencyOnly(record) ==
    IF record = NULL THEN DEFAULT_THROTTLE
    ELSE [record[1] EXCEPT !.concurrency =
              Max(THROTTLE_BOUNDS.min_concurrency,
                  Min(THROTTLE_BOUNDS.max_concurrency, @))]

\* which of the two versions of cache.ts the run is linked with
Load(version, record) ==
    IF version = "delay" THEN loadThrottleState(record)
    ELSE loadThrottleStateConcurrencyOnly(record)

Backoff(version, state, t) ==
    IF version = "delay" THEN throttleBackoff(state, t)
    ELSE LET r == throttleBackoffConcurrencyOnly(("state" :> state), "state", t)
         IN  r.heap[r.returned]

Speedup(version, state, t) ==
    IF version = "delay" THEN throttleSpeedup(state, t)
    ELSE LET r == throttleSpeedupConcurrencyOnly(("state" :> state), "state", t)
         IN  r.heap[r.returned]

-----------------------------------------------------------------------------
(* index.ts: the inputs of a run *)

\* index.ts:567-568: cves.slice(0, limitArg) when --limit is given (0 stands for
\* none); a negative end counts from the end of the array
NumCves(c) ==
    IF c.limitArg > 0 THEN Min(c.kevCount, c.limitArg)
    ELSE IF c.limitArg < 0 THEN Max(0, c.kevCount + c.limitArg)
    ELSE c.kevCount

\* index.ts:579: maxResults: limitArg ? Math.min(limitArg * 10, 500) : 5000
MaxResults(c) ==
    IF c.limitArg # 0
    THEN Min(c.limitArg * LimitedMaxResultsFactor, LimitedMaxResultsCap)
    ELSE DefaultMaxResults

\* index.ts:556-560: concurrency without the S3 cache
DefaultConcurrency(apiKey) == IF apiKey THEN ConcurrencyWithKey ELSE ConcurrencyWithoutKey

\* cache.ts:16-18
isCacheEnabled == cfg.s3

Lookups == 1..NumCves(cfg)
Requesters == 0..NumCves(cfg)

NewRequest(pc) ==
    [ pc |-> pc, retryCount |-> 0, wakeAt |-> 0, sleepFrom |-> 0,
      attempts |-> 0, n429 |-> 0, firstAt |-> 0, sumDelay |-> 0,
      last |-> "none", out |-> NULL ]

NewBulk ==
    [ maxResults |-> 0, startIndex |-> 0, totalResults |-> 0, had429 |-> FALSE,
      pageCount |-> 0, allCves |-> <<>>, response |-> NULL ]

\* index.ts:366-406: checkAllCves before it is called: no promise, nothing returned
\* (outOfOrder is history: a promise resolved while one before it was pending)
NoCollect == [ promises |-> <<>>, results |-> <<>>, completed |-> 0, i |-> 0,
               returned |-> FALSE, outOfOrder |-> FALSE ]

\* index.ts:370 and 173: cves.map(...): one promise per CVE, none resolved yet
Pending(n) == [k \in 1..n |-> NULL]

\* the CVE id of input number i
CveId(i) == <<"CVE", i>>

\* index.ts:391-403: the CveResult of a lookup: the id of its CVE and the fields of
\* the NvdResult (the other fields copied from the KEV entry are not modelled)
CveResult(i, nvdResult) == [cve_id |-> CveId(i)] @@ nvdResult

\* The value is stored at the place of its completion, not of its promise.
ResultSlotByCompletion(index, completed) == completed + 1

\* index.ts:406 and 203: Promise.all keeps the value of a promise at the index of
\* the promise in the array it was given
ResultSlot(index, completed) == index

\* index.ts:380 and 406: the callback of the promise at the index returns the
\* value: completed++, and Promise.all stores the value
Resolve(c, index, value) ==
    [c EXCEPT !.promises[ResultSlot(index, c.completed)] = Some(value),
              !.completed = @ + 1,
              !.outOfOrder = @ \/ \E j \in 1..(index - 1) : c.promises[j] = NULL]

\* index.ts:406 and 203: the array Promise.all resolves with
Values(promises) == [k \in 1..Len(promises) |-> promises[k][1]]

NoHistory ==
    [dispatched |-> 0, calls |-> 0, failures |-> 0, seen429 |-> FALSE,
     transitions |-> 0, saves |-> 0, readOk |-> TRUE, saveOk |-> TRUE]

NoTransition == [op |-> "none", input |-> DEFAULT_THROTTLE, output |-> DEFAULT_THROTTLE]

\* the persisted records an ordinary run may find
PersistedRecords ==
    { NULL,
      putObject([DEFAULT_THROTTLE EXCEPT !.consecutive_successes = 2, !.delay_ms = 700]),
      putObject([DEFAULT_THROTTLE EXCEPT !.consecutive_successes = 3,
                                         !.last_success_at = Some(0)]) }

\* the runs checked: with and without API key and S3 cache, with either version of
\* cache.ts, without --limit and with --limit 1
Configs ==
    { c \in [ apiKey : BOOLEAN, s3 : BOOLEAN, limitArg : {0, 1},
              kevCount : {MaxCves}, cache : {"delay", "concurrencyOnly"} ] :
        ~c.s3 => c.cache = "concurrencyOnly" }

InitRun(configs, records) ==
    /\ cfg \in configs
    /\ s3Record \in (IF cfg.s3 THEN records ELSE {NULL})
    /\ now = 0
    /\ ticks = 0
    /\ requestTimestamps = <<>>
    /\ stat = NoHistory
    /\ throttleState = DEFAULT_THROTTLE
    /\ had429Error = FALSE
    /\ pcMain = "start"
    /\ req = [i \in Requesters |-> NewRequest(IF i = 0 THEN "idle" ELSE "queued")]
    /\ bulk = NewBulk
    /\ recentResult = NULL
    /\ collect = NoCollect
    /\ thr = NoTransition

Init == InitRun(Configs, PersistedRecords)

-----------------------------------------------------------------------------
(* nvd.ts: the bulk paginator's page handling *)

\* <<totalResults, items in the page>>: an empty result, one page, a total that
\* needs a second page
PageShapes == {<<0, 0>>, <<25, 25>>, <<2001, 1>>}

\* responses to a page request; a 200 carries totalResults and the page's item count
PageOutcomes(startIndex) ==
    { [kind |-> x.kind, status |-> x.status, parsable |-> x.parsable,
       message |-> x.message, total |-> 0, count |-> 0] :
         x \in {y \in LookupOutcomes : ~(IsOk(y) /\ y.parsable)} }
    \cup
    { [kind |-> "http", status |-> 200, parsable |-> TRUE, message |-> <<>>,
       total |-> p[1], count |-> p[2]] :
         p \in {q \in PageShapes : q[2] <= Max(0, q[1] - startIndex)} }

\* the items of a page: the CVEs numbered startIndex+1 .. startIndex+count
PageItems(startIndex, count) == [j \in 1..count |-> startIndex + j]

\* A push loop without the break at maxResults.
PushPageNoCap(allCves, items, maxResults) == allCves \o items

\* nvd.ts:1047-1053: push the page's items until maxResults are collected
PushPage(allCves, items, maxResults) ==
    allCves \o SubSeq(items, 1, Min(Len(items), Max(0, maxResults - Len(allCves))))

\* nvd.ts:1057: while (startIndex < totalResults && allCves.length < maxResults)
\* startIndex advances by the number of items of the page.
NextStartIndexByCount(startIndex, count) == startIndex + count

\* nvd.ts:1055: startIndex += RESULTS_PER_PAGE, whatever the page held
NextStartIndex(startIndex, count) == startIndex + RESULTS_PER_PAGE

ContinuePaging(startIndex, totalResults, collected, maxResults) ==
    startIndex < totalResults /\ collected < maxResults

-----------------------------------------------------------------------------
(* The run *)

Running == pcMain \in {"lookups", "bulk", "call"}

Active == {i \in Lookups : req[i].pc \notin {"queued", "done", "threw"}}
Queued == {i \in Lookups : req[i].pc = "queued"}
Sleepers == {i \in Requesters : req[i].pc \in {"rl_sleep", "backoff", "catch_sleep"}}

SetMin(S) == CHOOSE x \in S : \A y \in S : x <= y

\* A gate that admits one lookup more than its concurrency.
GateHasSlotOneMore(active, concurrency) == active <= concurrency

\* index.ts:367: pLimit(concurrency) runs a queued function while fewer than
\* concurrency are running
GateHasSlot(active, concurrency) == active < concurrency

\* index.ts:367-371: the gate has a free slot for a queued lookup
Startable ==
    /\ pcMain = "lookups"
    /\ Queued # {}
    /\ GateHasSlot(Cardinality(Active), throttleState.concurrency)

\* Promise continuations run before any timer or network callback: a callback is
\* delivered only when no requester stands at a synchronous step
Quiescent ==
    /\ ~Startable
    /\ \A i \in Requesters : req[i].pc \notin {"limiter", "acquired"}

\* index.ts:548-562 and 367-370: read the throttle state, create the concurrency
\* gate and one promise per CVE.
\* p-limit rejects a concurrency below 1, which ends the run.
\* The read of the record succeeds or fails (a failed read of a bucket without
\* record gives null like a successful one).
Begin ==
    /\ pcMain = "start"
    /\ \E readOk \in (IF isCacheEnabled /\ s3Record # NULL THEN BOOLEAN ELSE {TRUE}) :
          /\ throttleState' =
                IF isCacheEnabled THEN Load(cfg.cache, getObject(s3Record, readOk))
                ELSE [throttleState EXCEPT !.concurrency = DefaultConcurrency(cfg.apiKey)]
          /\ stat' = [stat EXCEPT !.readOk = readOk]
    /\ pcMain' = IF throttleState'.concurrency >= 1 THEN "lookups" ELSE "failed"
    /\ collect' = IF throttleState'.concurrency >= 1
                  THEN [collect EXCEPT !.promises = Pending(NumCves(cfg))]
                  ELSE collect
    /\ UNCHANGED <<cfg, s3Record, now, ticks, requestTimestamps, had429Error,
                   req, bulk, recentResult, thr>>

\* index.ts:370-373: the gate admits the next queued lookup, in input order
Start(i) ==
    /\ Startable
    /\ i = SetMin(Queued)
    /\ req' = [req EXCEPT ![i].pc = "limiter"]
    /\ UNCHANGED <<cfg, s3Record, now, ticks, requestTimestamps, stat, throttleState,
                   had429Error, pcMain, bulk, recentResult, collect, thr>>

\* nvd.ts:709-736: waitForRateLimit up to its sleep, or to its end when it does not sleep
Acquire(i) ==
    /\ Running
    /\ req[i].pc = "limiter"
    /\ LET e == LimiterEnter(requestTimestamps, now, cfg.apiKey)
       IN  IF e.sleeps
           THEN /\ requestTimestamps' = e.timestamps
                /\ req' = [req EXCEPT ![i].pc = "rl_sleep", ![i].sleepFrom = now,
                                      ![i].wakeAt = now + e.waitTime]
                /\ stat' = stat
           ELSE /\ requestTimestamps' =
                      IF e.full THEN LimiterRecordAfterWait(e.timestamps, now)
                      ELSE LimiterRecord(e.timestamps, now)
                /\ req' = [req EXCEPT ![i].pc = "acquired"]
                /\ stat' = [stat EXCEPT !.dispatched = @ + 1]
    /\ UNCHANGED <<cfg, s3Record, now, ticks, throttleState, had429Error, pcMain,
                   bulk, recentResult, collect, thr>>

\* nvd.ts:726-735: the sleeper wakes, prunes again and records its dispatch
Wake(i) ==
    /\ Running
    /\ Quiescent
    /\ req[i].pc = "rl_sleep"
    /\ now >= req[i].wakeAt
    /\ requestTimestamps' = LimiterRecordAfterWait(requestTimestamps, now)
    /\ req' = [req EXCEPT ![i].pc = "acquired"]
    /\ stat' = [stat EXCEPT !.dispatched = @ + 1]
    /\ UNCHANGED <<cfg, s3Record, now, ticks, throttleState, had429Error, pcMain,
                   bulk, recentResult, collect, thr>>

\* nvd.ts:750 and 1001: the network call is issued
Fetch(i) ==
    /\ Running
    /\ req[i].pc = "acquired"
    /\ req' = [req EXCEPT ![i].pc = "fetching",
                          ![i].attempts = @ + 1,
                          ![i].firstAt = IF req[i].attempts = 0 THEN now ELSE @]
    /\ stat' = [stat EXCEPT !.calls = @ + 1]
    /\ UNCHANGED <<cfg, s3Record, now, ticks, requestTimestamps, throttleState,
                   had429Error, pcMain, bulk, recentResult, collect, thr>>

\* what a response was, for the record: 429, another failure, or a success
Kind(o) ==
    IF Is429(o) THEN "429"
    ELSE IF o.kind = "transport" THEN "transport"
    ELSE IF ~StatusOk(o.status) THEN "status"
    ELSE IF ~o.parsable THEN "unparsable"
    ELSE "ok"

\* the failures the network may still inject
MayAnswer(o) == (IsOk(o) /\ o.parsable) \/ stat.failures < MaxFailures

Answered(o) ==
    [stat EXCEPT !.failures = IF IsOk(o) /\ o.parsable THEN @ ELSE @ + 1,
                 !.seen429 = @ \/ Is429(o)]

\* nvd.ts:750-784 and index.ts:373-402: the response of a single lookup arrives
RespondLookup(i, o) ==
    /\ pcMain = "lookups"
    /\ Quiescent
    /\ i \in Lookups
    /\ req[i].pc = "fetching"
    /\ MayAnswer(o)
    /\ stat' = Answered(o)
    /\ IF LookupRetries(o, req[i].retryCount)
       THEN /\ req' = [req EXCEPT ![i].pc = "backoff", ![i].sleepFrom = now,
                                  ![i].wakeAt = now + RetryDelay(req[i].retryCount),
                                  ![i].n429 = @ + 1, ![i].last = "429",
                                  ![i].sumDelay = @ + RETRY_DELAY_MS * Pow2(req[i].attempts - 1)]
            /\ had429Error' = had429Error
       ELSE LET c == LookupResult(o, BodyPatched)
            IN  /\ req' = [req EXCEPT ![i].pc = IF c.threw THEN "threw" ELSE "done",
                                      ![i].n429 = IF Is429(o) THEN @ + 1 ELSE @,
                                      ![i].last = Kind(o),
                                      ![i].out = Some(c)]
                /\ had429Error' =
                      (had429Error \/ (~c.threw /\ c.value.error # NULL
                                         /\ Includes429(c.value.error[1])))
    /\ collect' = IF LookupRetries(o, req[i].retryCount) \/ LookupResult(o, BodyPatched).threw
                  THEN collect
                  ELSE Resolve(collect, i, CveResult(i, LookupResult(o, BodyPatched).value))
    /\ UNCHANGED <<cfg, s3Record, now, ticks, requestTimestamps, throttleState,
                   pcMain, bulk, recentResult, thr>>

\* nvd.ts:760-761 and 1011-1013: the backoff after a 429 ends, the request is retried
BackoffWake(i) ==
    /\ Running
    /\ Quiescent
    /\ req[i].pc = "backoff"
    /\ now >= req[i].wakeAt
    /\ IF i = 0 /\ ~PageLoopContinues(req[i].retryCount + 1)
       THEN \E r \in PageLoopExit([req[i] EXCEPT !.retryCount = @ + 1], bulk) :
                req' = [req EXCEPT ![i] = r]
       ELSE req' = [req EXCEPT ![i].pc = RetryEntry, ![i].retryCount = @ + 1]
    /\ UNCHANGED <<cfg, s3Record, now, ticks, requestTimestamps, stat, throttleState,
                   had429Error, pcMain, bulk, recentResult, collect, thr>>

\* what is left of a call once its caller has its outcome: the locals are gone
Settled(r) == [NewRequest(r.pc) EXCEPT !.out = r.out]

\* index.ts:406 and 572-577: Promise.all settles; the bulk fetch starts
LookupsSettled ==
    /\ pcMain = "lookups"
    /\ \/ \A i \in Lookups : req[i].pc = "done"
       \/ \E i \in Lookups : req[i].pc = "threw"
    /\ IF \E i \in Lookups : req[i].pc = "threw"
       THEN pcMain' = "failed" /\ req' = req /\ collect' = collect /\ bulk' = bulk
       ELSE /\ pcMain' = "bulk"
            /\ req' = [i \in Requesters |->
                         IF i = 0 THEN NewRequest("limiter") ELSE Settled(req[i])]
            /\ collect' = [collect EXCEPT !.results = Values(collect.promises),
                                          !.returned = TRUE]
            /\ bulk' = [NewBulk EXCEPT !.maxResults = MaxResults(cfg)]
    /\ UNCHANGED <<cfg, s3Record, now, ticks, requestTimestamps, stat, throttleState,
                   had429Error, recentResult, thr>>

\* nvd.ts:996-1057: the response of a page request arrives
RespondPage(o) ==
    /\ pcMain = "bulk"
    /\ Quiescent
    /\ req[0].pc = "fetching"
    /\ MayAnswer(o)
    /\ stat' = Answered(o)
    /\ LET r == req[0].retryCount
           seen == [bulk EXCEPT !.had429 = @ \/ Is429(o),
                                !.response = IF o.kind = "http" THEN Some(o.status) ELSE @]
       IN  IF Is429(o) /\ Retry429(r)
           THEN \* 1006-1013: sleep, then retryCount++ and continue
                /\ bulk' = seen
                /\ req' = [req EXCEPT ![0].pc = "backoff", ![0].sleepFrom = now,
                                      ![0].wakeAt = now + RetryDelay(r),
                                      ![0].n429 = @ + 1, ![0].last = "429",
                                      ![0].sumDelay = @ + RETRY_DELAY_MS * Pow2(req[0].attempts - 1)]
           ELSE IF ~IsOk(o)
           THEN \* 1015, 1019, 1023-1030: the catch block
                /\ bulk' = seen
                /\ IF PageCatchRetries(r)
                   THEN req' = [req EXCEPT ![0].pc = "catch_sleep", ![0].sleepFrom = now,
                                           ![0].retryCount = r + 1,
                                           ![0].wakeAt = now + PageCatchDelay(r + 1),
                                           ![0].n429 = IF Is429(o) THEN @ + 1 ELSE @,
                                           ![0].last = Kind(o)]
                   ELSE LET c == PageFailure(bulk.allCves, seen.had429)
                        IN  req' = [req EXCEPT ![0].pc = IF c.threw THEN "threw" ELSE "done",
                                               ![0].n429 = IF Is429(o) THEN @ + 1 ELSE @,
                                               ![0].last = Kind(o),
                                               ![0].out = Some(c)]
           ELSE IF ~o.parsable
           THEN \* 1037: response.json() throws outside the retry loop
                /\ bulk' = seen
                /\ req' = [req EXCEPT ![0].pc = "threw", ![0].last = Kind(o),
                                      ![0].out = Some([threw |-> TRUE, value |-> NULL])]
           ELSE \* 1037-1057: the page is processed
                LET all   == PushPage(bulk.allCves, PageItems(bulk.startIndex, o.count),
                                      bulk.maxResults)
                    next  == NextStartIndex(bulk.startIndex, o.count)
                IN  IF ContinuePaging(next, o.total, Len(all), bulk.maxResults)
                    THEN /\ bulk' = [seen EXCEPT !.totalResults = o.total, !.allCves = all,
                                                 !.pageCount = @ + 1, !.startIndex = next,
                                                 !.response = NULL]
                         /\ req' = [req EXCEPT ![0] = NewRequest("limiter")]
                    ELSE /\ bulk' = [seen EXCEPT !.totalResults = o.total, !.allCves = all,
                                                 !.pageCount = @ + 1, !.startIndex = next]
                         /\ req' = [req EXCEPT ![0].pc = "done", ![0].last = Kind(o),
                                               ![0].out = Some(PageReturn(all, seen.had429))]
    /\ UNCHANGED <<cfg, s3Record, now, ticks, requestTimestamps, throttleState,
                   had429Error, pcMain, recentResult, collect, thr>>

\* nvd.ts:1029: the sleep of the catch block ends, the loop tries the page again
CatchWake ==
    /\ pcMain = "bulk"
    /\ Quiescent
    /\ req[0].pc = "catch_sleep"
    /\ now >= req[0].wakeAt
    /\ IF PageLoopContinues(req[0].retryCount)
       THEN req' = [req EXCEPT ![0].pc = RetryEntry]
       ELSE \E r \in PageLoopExit(req[0], bulk) : req' = [req EXCEPT ![0] = r]
    /\ UNCHANGED <<cfg, s3Record, now, ticks, requestTimestamps, stat, throttleState,
                   had429Error, pcMain, bulk, recentResult, collect, thr>>

\* The rejection of fetchRecentCves is swallowed and main goes on.
AfterBulkSwallowsFailure(threw) == "throttle"

\* index.ts:577 and 674-677: a rejection of fetchRecentCves rejects main, whose
\* catch handler exits; otherwise main goes on to the throttle update
AfterBulk(threw) == IF threw THEN "failed" ELSE "throttle"

\* index.ts:577-585 and 674-677: fetchRecentCves settles; a rejection ends the run
BulkSettled ==
    /\ pcMain = "bulk"
    /\ req[0].pc \in {"done", "threw"}
    /\ LET c == req[0].out[1]
       IN  IF c.threw
           THEN pcMain' = AfterBulk(TRUE) /\ recentResult' = recentResult
                                          /\ had429Error' = had429Error
           ELSE pcMain' = AfterBulk(FALSE) /\ recentResult' = c.value
                                           /\ had429Error' = (had429Error \/ c.value[1].had429)
    /\ req' = [req EXCEPT ![0] = Settled(@)]
    /\ bulk' = NewBulk
    /\ UNCHANGED <<cfg, s3Record, now, ticks, requestTimestamps, stat, throttleState, thr, collect>>

\* The two branches of the choice exchanged.
ThrottleChoiceInverted(had429) == IF had429 THEN "speedup" ELSE "backoff"

\* index.ts:660-665: if (had429Error) throttleBackoff else throttleSpeedup
ThrottleChoice(had429) == IF had429 THEN "backoff" ELSE "speedup"

\* index.ts:659-666: the throttle transition of the run is chosen and applied
ApplyThrottle ==
    /\ pcMain = "throttle"
    /\ IF isCacheEnabled
       THEN /\ throttleState' = IF ThrottleChoice(had429Error) = "backoff"
                                THEN Backoff(cfg.cache, throttleState, now)
                                ELSE Speedup(cfg.cache, throttleState, now)
            /\ thr' = [op |-> ThrottleChoice(had429Error),
                       input |-> throttleState, output |-> throttleState']
            /\ stat' = [stat EXCEPT !.transitions = @ + 1]
            /\ pcMain' = "saving"
       ELSE /\ pcMain' = "done"
            /\ UNCHANGED <<throttleState, thr, stat, collect>>
    /\ UNCHANGED <<cfg, s3Record, now, ticks, requestTimestamps, had429Error,
                   req, bulk, recentResult, collect>>

\* index.ts:667 and cache.ts:39-56, 221-225: the state is written back; a failed
\* write is only warned about
Save(ok) ==
    /\ pcMain = "saving"
    /\ s3Record' = IF ok THEN putObject(throttleState) ELSE s3Record
    /\ stat' = [stat EXCEPT !.saves = @ + 1, !.saveOk = ok]
    /\ pcMain' = "done"
    /\ UNCHANGED <<cfg, now, ticks, requestTimestamps, throttleState, had429Error,
                   req, bulk, recentResult, collect, thr>>

\* the clock advances by itself, between any two steps
Tick ==
    /\ Running
    /\ ticks < MaxTicks
    /\ now' = now + TickMs
    /\ ticks' = ticks + 1
    /\ UNCHANGED <<cfg, s3Record, requestTimestamps, stat, throttleState, had429Error,
                   pcMain, req, bulk, recentResult, collect, thr>>

\* nvd.ts:703: time passes until the next timer set by sleep() is due
TimerJump ==
    /\ Running
    /\ Quiescent
    /\ Sleepers # {}
    /\ LET due == SetMin({req[i].wakeAt : i \in Sleepers})
       IN  due > now /\ now' = due
    /\ UNCHANGED <<cfg, s3Record, ticks, requestTimestamps, stat, throttleState,
                   had429Error, pcMain, req, bulk, recentResult, collect, thr>>

Next ==
    \/ Begin
    \/ \E i \in Lookups : Start(i)
    \/ \E i \in Requesters : Acquire(i)
    \/ \E i \in Requesters : Wake(i)
    \/ \E i \in Requesters : Fetch(i)
    \/ \E i \in Lookups : \E o \in LookupOutcomes : RespondLookup(i, o)
    \/ \E i \in Requesters : BackoffWake(i)
    \/ LookupsSettled
    \/ \E o \in PageOutcomes(bulk.startIndex) : RespondPage(o)
    \/ CatchWake
    \/ BulkSettled
    \/ ApplyThrottle
    \/ \E ok \in BOOLEAN : Save(ok)
    \/ TimerJump

Spec == Init /\ [][Next]_vars

-----------------------------------------------------------------------------
(* The single lookups of a run with an API key and no S3 cache: the gate admits    *)
(* two lookups at a time, the window holds 50 dispatches.  Every response is a     *)
(* success and overtakes at most MaxOvertake older lookups; the clock may tick.     *)

RaceConfig ==
    [apiKey |-> TRUE, s3 |-> FALSE, limitArg |-> 0, kevCount |-> RaceCves,
     cache |-> "concurrencyOnly"]

OkOutcome == [kind |-> "http", status |-> 200, parsable |-> TRUE, message |-> <<>>]

RespondInOrder(i) ==
    /\ i \in Active
    /\ i - SetMin(Active) <= MaxOvertake
    /\ RespondLookup(i, OkOutcome)

InitRace == InitRun({RaceConfig}, {NULL})

NextRace ==
    \/ Begin
    \/ \E i \in Lookups : Start(i)
    \/ \E i \in Lookups : Acquire(i)
    \/ \E i \in Lookups : Wake(i)
    \/ \E i \in Lookups : Fetch(i)
    \/ \E i \in Lookups : RespondInOrder(i)
    \/ Tick
    \/ TimerJump

SpecRace == InitRace /\ [][NextRace]_vars

\* The runs in which callers wait in waitForRateLimit, each taken to its end: a
\* run without API key (5 requests per window, one lookup at a time) with the S3
\* cache and no stored record, and the run with an API key and no S3 cache, where
\* two callers are inside waitForRateLimit at the same time
InitLive ==
    \/ InitRun({c \in Configs : c.s3 /\ ~c.apiKey /\ c.limitArg = 0 /\ c.cache = "delay"},
               {NULL})
    \/ InitRace

\* index.ts:352-409 and 572-672: the steps of the run; in the run with an API key
\* and no S3 cache the lookups are answered as in NextRace, and when the last of
\* them is answered Promise.all settles and main goes on with fetchRecentCves
NextLive ==
    \/ cfg # RaceConfig /\ Next
    \/ cfg = RaceConfig /\ NextRace
    \/ cfg = RaceConfig /\ (\A i \in Lookups : req[i].pc = "done") /\ Next

\* The event loop runs every callback that is ready and every timer falls due:
\* the run does not stop while a step is possible.
SpecLive == InitLive /\ [][NextLive]_vars /\ WF_vars(NextLive)

\* nvd.ts:711-716: the dispatches recorded inside the trailing window of W ms: the
\* ones the pruning loop keeps, those not older than now - W
InWindow == {k \in DOMAIN requestTimestamps :
                 requestTimestamps[k] >= now - RATE_LIMIT_WINDOW_MS}

\* C1: with two or more concurrent callers of waitForRateLimit, at most N dispatch
\* timestamps lie within the trailing window of W = 30000 ms, in every reachable state
C1_WindowNeverExceeded ==
    Cardinality(InWindow) <= RATE_LIMIT_REQUESTS(cfg.apiKey)

-----------------------------------------------------------------------------
(* The throttle transitions applied to drawn states: every combination of a      *)
(* concurrency around its bounds, a delay around its bounds and counters up to    *)
(* MaxCounter, with either version of cache.ts.                                   *)

ThrottleCallTime == 1000

ThrottleInputs ==
    { [ concurrency |-> c, delay_ms |-> d, last_429_at |-> l, last_success_at |-> NULL,
        consecutive_successes |-> s, consecutive_429s |-> n ] :
        c \in -1..2,
        d \in { THROTTLE_BOUNDS.min_delay_ms - THROTTLE_BOUNDS.delay_step_ms,
                THROTTLE_BOUNDS.min_delay_ms,
                THROTTLE_BOUNDS.min_delay_ms + THROTTLE_BOUNDS.delay_step_ms,
                THROTTLE_BOUNDS.max_delay_ms - THROTTLE_BOUNDS.delay_step_ms,
                THROTTLE_BOUNDS.max_delay_ms,
                THROTTLE_BOUNDS.max_delay_ms + THROTTLE_BOUNDS.delay_step_ms },
        l \in {NULL, Some(0)},
        s \in 0..MaxCounter,
        n \in 0..MaxCounter }

InitThrottle ==
    /\ cfg \in {c \in Configs : c.s3 /\ c.apiKey /\ c.limitArg = 0}
    /\ s3Record = NULL
    /\ now = ThrottleCallTime
    /\ ticks = 0
    /\ requestTimestamps = <<>>
    /\ stat = NoHistory
    /\ throttleState \in ThrottleInputs
    /\ had429Error = FALSE
    /\ pcMain = "unit"
    /\ req = [i \in Requesters |-> NewRequest(IF i = 0 THEN "idle" ELSE "queued")]
    /\ bulk = NewBulk
    /\ recentResult = NULL
    /\ collect = NoCollect
    /\ thr = NoTransition

\* cache.ts:86 and 228: throttleBackoff(state) is called with the drawn state as
\* the object "state"; thr records what that object holds after the call and what
\* the call returned
CallThrottleBackoff ==
    /\ pcMain = "unit"
    /\ thr.op = "none"
    /\ throttleState' = Backoff(cfg.cache, throttleState, now)
    /\ LET heap == ("state" :> throttleState)
           r    == IF cfg.cache = "delay"
                   THEN throttleBackoffOn(heap, "state", now)
                   ELSE throttleBackoffConcurrencyOnly(heap, "state", now)
       IN  thr' = [op |-> "backoff", input |-> r.heap["state"],
                   output |-> throttleState']
    /\ UNCHANGED <<cfg, s3Record, now, ticks, requestTimestamps, stat, had429Error,
                   pcMain, req, bulk, recentResult, collect>>

\* cache.ts:109 and 257: throttleSpeedup(state) is called, in the same way
CallThrottleSpeedup ==
    /\ pcMain = "unit"
    /\ thr.op = "none"
    /\ throttleState' = Speedup(cfg.cache, throttleState, now)
    /\ LET heap == ("state" :> throttleState)
           r    == IF cfg.cache = "delay"
                   THEN throttleSpeedupOn(heap, "state", now)
                   ELSE throttleSpeedupConcurrencyOnly(heap, "state", now)
       IN  thr' = [op |-> "speedup", input |-> r.heap["state"],
                   output |-> throttleState']
    /\ UNCHANGED <<cfg, s3Record, now, ticks, requestTimestamps, stat, had429Error,
                   pcMain, req, bulk, recentResult, collect>>

\* cache.ts:200 and 60: loadThrottleState() is called with the drawn state as the
\* record in the bucket, written there by saveThrottleState (cache.ts:221 and 79);
\* the read of the record succeeds or fails
CallSaveThenLoad ==
    /\ pcMain = "unit"
    /\ thr.op = "none"
    /\ s3Record' = putObject(throttleState)
    /\ \E readOk \in BOOLEAN :
          /\ throttleState' = Load(cfg.cache, getObject(s3Record', readOk))
          /\ thr' = [op |-> IF readOk THEN "load" ELSE "loadUnread",
                     input |-> throttleState, output |-> throttleState']
    /\ UNCHANGED <<cfg, now, ticks, requestTimestamps, stat, had429Error,
                   pcMain, req, bulk, recentResult, collect>>

\* cache.ts:200 and 60: loadThrottleState() is called with no record in the bucket
CallLoadAbsent ==
    /\ pcMain = "unit"
    /\ thr.op = "none"
    /\ s3Record = NULL
    /\ throttleState' = Load(cfg.cache, getObject(s3Record, TRUE))
    /\ thr' = [op |-> "loadAbsent", input |-> throttleState, output |-> throttleState']
    /\ UNCHANGED <<cfg, s3Record, now, ticks, requestTimestamps, stat, had429Error,
                   pcMain, req, bulk, recentResult, collect>>

NextThrottle ==
    \/ CallThrottleBackoff
    \/ CallThrottleSpeedup
    \/ CallSaveThenLoad
    \/ CallLoadAbsent

SpecThrottle == InitThrottle /\ [][NextThrottle]_vars

-----------------------------------------------------------------------------
(* The parsers applied to drawn response bodies: every reference list of up to  *)
(* MaxRefs references over the tag sets, and every combination of the three     *)
(* metric versions being absent, holding a scored entry, or holding an entry    *)
(* without a base score in front of a scored one.                               *)

MaxRefs == 2

TagSets == (SUBSET {"Patch", "Vendor Advisory", "Mitigation"}) \cup {{"Exploit"}}

ReferenceLists ==
    UNION { [1..n -> [tags : TagSets, url : {"u1", "u2"}]] : n \in 0..MaxRefs }

\* a metric entry as the API sends it for the version: v3 carries the severity
\* inside cvssData, v2 beside it
ScoredEntry(version) ==
    CASE version = "V31" -> [ cvssData |-> Some([baseScore |-> Some(98), baseSeverity |-> Some("CRITICAL")]),
                              baseSeverity |-> NULL ]
      [] version = "V30" -> [ cvssData |-> Some([baseScore |-> Some(75), baseSeverity |-> Some("HIGH")]),
                              baseSeverity |-> NULL ]
      [] version = "V2"  -> [ cvssData |-> Some([baseScore |-> Some(50), baseSeverity |-> NULL]),
                              baseSeverity |-> Some("MEDIUM") ]

UnscoredEntry == [ cvssData |-> Some([baseScore |-> NULL, baseSeverity |-> NULL]),
                   baseSeverity |-> NULL ]

MetricEntries(version) ==
    { <<>>, <<ScoredEntry(version)>>, <<UnscoredEntry, ScoredEntry(version)>> }

MetricsInputs ==
    [ cvssMetricV31 : MetricEntries("V31"),
      cvssMetricV30 : MetricEntries("V30"),
      cvssMetricV2  : MetricEntries("V2") ]

ResponseBodies ==
    { [vulnerabilities |-> <<>>] } \cup
    { [vulnerabilities |-> << [references |-> r, metrics |-> m, published |-> NULL] >>] :
        r \in ReferenceLists, m \in MetricsInputs }

InitParse ==
    /\ cfg \in {c \in Configs : c.s3 /\ c.apiKey /\ c.limitArg = 0 /\ c.cache = "delay"}
    /\ s3Record = NULL
    /\ now = 0
    /\ ticks = 0
    /\ requestTimestamps = <<>>
    /\ stat = NoHistory
    /\ throttleState = DEFAULT_THROTTLE
    /\ had429Error = FALSE
    /\ pcMain = "unit"
    /\ req = [i \in Requesters |-> NewRequest(IF i = 0 THEN "idle" ELSE "queued")]
    /\ bulk = NewBulk
    /\ recentResult = NULL
    /\ collect = NoCollect
    /\ \E body \in ResponseBodies :
          thr = [op |-> "none", input |-> body, output |-> NULL]

\* nvd.ts:770-771: the parsed body of a single lookup is classified
CallParseNvdCveResponse ==
    /\ pcMain = "unit"
    /\ thr.op = "none"
    /\ thr' = [thr EXCEPT !.op = "parse", !.output = parseNvdCveResponse(thr.input)]
    /\ UNCHANGED <<cfg, s3Record, now, ticks, requestTimestamps, stat, throttleState,
                   had429Error, pcMain, req, bulk, recentResult, collect>>

\* nvd.ts:1047-1053: an entry of a bulk page is converted
CallParseRecentCve ==
    /\ pcMain = "unit"
    /\ thr.op = "none"
    /\ Len(thr.input.vulnerabilities) > 0
    /\ thr' = [thr EXCEPT !.op = "parseRecent",
                          !.output = parseRecentCve(thr.input.vulnerabilities[1])]
    /\ UNCHANGED <<cfg, s3Record, now, ticks, requestTimestamps, stat, throttleState,
                   had429Error, pcMain, req, bulk, recentResult, collect>>

\* nvd.ts:742-748 and 709-736: checkNvdPatchStatus is called by itself, with the
\* default retryCount 0, and runs up to its first await: waitForRateLimit prunes
\* the window and records the dispatch (the window of a module just loaded is
\* empty, the call does not sleep)
CallCheckNvdPatchStatus ==
    /\ pcMain = "unit"
    /\ thr.op = "none"
    /\ req[1].pc = "queued"
    /\ LET e == LimiterEnter(requestTimestamps, now, cfg.apiKey)
       IN  /\ ~e.sleeps
           /\ requestTimestamps' =
                 IF e.full THEN LimiterRecordAfterWait(e.timestamps, now)
                 ELSE LimiterRecord(e.timestamps, now)
    /\ req' = [req EXCEPT ![1].pc = "acquired"]
    /\ stat' = [stat EXCEPT !.dispatched = @ + 1]
    /\ pcMain' = "call"
    /\ UNCHANGED <<cfg, s3Record, now, ticks, throttleState, had429Error, bulk,
                   recentResult, collect, thr>>

\* nvd.ts:750-784: the response of that call arrives; the body of a parsable 200
\* is the input.  A 429 below MAX_RETRIES sets the backoff timer, after which the
\* function calls itself; otherwise the call resolves with its result
RespondCall(o) ==
    /\ pcMain = "call"
    /\ req[1].pc = "fetching"
    /\ MayAnswer(o)
    /\ stat' = Answered(o)
    /\ IF LookupRetries(o, req[1].retryCount)
       THEN /\ req' = [req EXCEPT ![1].pc = "backoff", ![1].sleepFrom = now,
                                  ![1].wakeAt = now + RetryDelay(req[1].retryCount),
                                  ![1].n429 = @ + 1, ![1].last = "429",
                                  ![1].sumDelay = @ + RETRY_DELAY_MS * Pow2(req[1].attempts - 1)]
            /\ UNCHANGED <<pcMain, thr>>
       ELSE LET c == LookupResult(o, thr.input)
            IN  /\ req' = [req EXCEPT ![1].pc = IF c.threw THEN "threw" ELSE "done",
                                      ![1].n429 = IF Is429(o) THEN @ + 1 ELSE @,
                                      ![1].last = Kind(o),
                                      ![1].out = Some(c)]
                /\ thr' = [thr EXCEPT !.op = "lookup", !.output = c.value]
                /\ pcMain' = "unit"
    /\ UNCHANGED <<cfg, s3Record, now, ticks, requestTimestamps, throttleState,
                   had429Error, bulk, recentResult, collect>>

NextParse ==
    \/ CallParseNvdCveResponse
    \/ CallParseRecentCve
    \/ CallCheckNvdPatchStatus
    \/ Acquire(1)
    \/ Fetch(1)
    \/ \E o \in LookupOutcomes : RespondCall(o)
    \/ BackoffWake(1)
    \/ TimerJump

SpecParse == InitParse /\ [][NextParse]_vars

-----------------------------------------------------------------------------
(* check_patch_status.js: the earlier single lookup, without limiter and retry *)

\* check_patch_status.js:74-76 and 126-134: the message the catch block receives
JsFailureMsg(o) ==
    IF o.kind = "transport" THEN o.message
    ELSE IF ~StatusOk(o.status) THEN MsgHttp(o.status)
    ELSE o.message

\* check_patch_status.js:64-135
checkNvdPatchStatusJs(o) ==
    IF IsOk(o) /\ o.parsable
    THEN LET r == parseNvdCveResponse(BodyPatched)
         IN  [threw |-> FALSE,
              value |-> [status |-> r.status, has_patch |-> r.has_patch,
                         has_vendor_advisory |-> r.has_vendor_advisory,
                         has_mitigation |-> r.has_mitigation,
                         patch_urls |-> r.patch_urls, error |-> NULL]]
    ELSE [threw |-> FALSE,
          value |-> [status |-> "ERROR", has_patch |-> FALSE,
                     has_vendor_advisory |-> FALSE, has_mitigation |-> FALSE,
                     patch_urls |-> <<>>, error |-> Some(JsFailureMsg(o))]]

-----------------------------------------------------------------------------
(* The retrying executor: properties *)

Terminal(r) == r.pc \in {"done", "threw"}

\* every attempt of the request that was answered so far was answered with 429
OnlySaw429(r) == r.attempts > 0 /\ r.last = "429" /\ r.n429 = r.attempts

\* C2: a request whose every attempt is answered with 429 makes exactly
\* MAX_RETRIES + 1 = 4 network calls and then ends in a terminal rate-limit failure
\* (an ERROR result for a single lookup, a thrown error for a bulk page): no fifth
\* call is made and the request does not end before the fourth
C2_All429ExactlyFourCalls ==
    \A i \in Requesters :
        /\ (req[i].n429 >= req[i].attempts - 1) => req[i].attempts <= MAX_RETRIES + 1
        /\ OnlySaw429(req[i]) =>
              /\ Terminal(req[i]) <=> (req[i].attempts = MAX_RETRIES + 1)
              /\ Terminal(req[i]) =>
                    IF i = 0
                    THEN req[i].pc = "threw"
                    ELSE /\ req[i].pc = "done"
                         /\ req[i].out[1].value.status = "ERROR"
                         /\ req[i].out[1].value.error = Some(MsgHttp429)

C2_Witness ==
    \E i \in Lookups :
        /\ req[i].pc = "done"
        /\ req[i].attempts = MAX_RETRIES + 1
        /\ req[i].n429 = MAX_RETRIES + 1
        /\ req[i].out[1].value.status = "ERROR"

\* C3: when any response of the run had status 429, in a single lookup or in a bulk
\* page, whether or not a later retry succeeded, had429Error is true at the moment
\* the throttle transition is chosen
C3_FlagSetWheneverA429WasSeen ==
    (pcMain = "throttle" /\ stat.seen429) => had429Error

\* C4: only a 429 is retried: after any other non-success status or a transport
\* error the request is over at once, for a single lookup and for a bulk page alike
C4_OnlyA429IsRetried ==
    \A i \in Requesters :
        req[i].last \in {"status", "transport"} => Terminal(req[i])

\* C4 (amended): a single lookup is retried on 429 only and ends at once, with an
\* ERROR result, on any other non-success status or transport error; a bulk page is
\* tried again after these failures too, after a sleep of RETRY_DELAY_MS * 2^retryCount
\* with retryCount already incremented, and throws only when the failure arrives with
\* retryCount = MAX_RETRIES
C4_OnlyLookupsStopAtOtherFailures ==
    /\ \A i \in Lookups :
          req[i].last \in {"status", "transport"} =>
              /\ req[i].pc = "done"
              /\ req[i].out[1].value.status = "ERROR"
    /\ req[0].last \in {"status", "transport"} =>
          /\ req[0].attempts <= MAX_RETRIES + 1
          /\ (req[0].pc = "threw") => (req[0].retryCount = MAX_RETRIES)
          /\ (req[0].pc = "threw") <=> (req[0].attempts = MAX_RETRIES + 1
                                          /\ req[0].out # NULL)
          /\ (req[0].pc = "catch_sleep") =>
                /\ req[0].retryCount = req[0].attempts
                /\ req[0].wakeAt - req[0].sleepFrom
                      = RETRY_DELAY_MS * Pow2(req[0].retryCount)

C4_Witness ==
    /\ req[0].pc = "catch_sleep"
    /\ req[0].last \in {"status", "transport"}
    /\ req[0].retryCount = 1

\* the messages a failed response can leave in the error field of the result
ExpectedError(kind) ==
    IF kind = "429" THEN {MsgHttp429}
    ELSE IF kind = "status" THEN {MsgHttp(503)}
    ELSE IF kind = "transport" THEN {<<"fetch", "failed">>}
    ELSE {MsgJson(<<"<html>">>), MsgJson(<<"<h1>", "429", "</h1>">>)}

\* C5: checkNvdPatchStatus never throws: after a transport error, a timeout, a
\* non-2xx status, a 429 with the retries used up or an unparsable body it returns a
\* result with status ERROR that carries the error message; the run goes on to the
\* bulk fetch with a result for every lookup
C5_LookupNeverThrows ==
    /\ \A i \in Lookups :
          /\ req[i].pc # "threw"
          /\ req[i].out # NULL => ~req[i].out[1].threw
          /\ (req[i].pc = "done" /\ req[i].last \in {"429", "status", "transport", "unparsable"}) =>
                /\ req[i].out[1].value.status = "ERROR"
                /\ req[i].out[1].value.error # NULL
                /\ req[i].out[1].value.error[1] \in ExpectedError(req[i].last)
          /\ (req[i].pc = "done" /\ req[i].last = "ok") =>
                req[i].out[1].value = parseNvdCveResponse(BodyPatched)
    /\ (pcMain = "failed") => (req[0].out # NULL /\ req[0].out[1].threw)
    /\ (pcMain \in {"bulk", "throttle", "saving", "done"}) =>
          \A i \in Lookups : req[i].pc = "done" /\ req[i].out # NULL
    /\ \A o \in LookupOutcomes :
          /\ ~checkNvdPatchStatusJs(o).threw
          /\ ~(IsOk(o) /\ o.parsable) =>
                /\ checkNvdPatchStatusJs(o).value.status = "ERROR"
                /\ checkNvdPatchStatusJs(o).value.error = Some(JsFailureMsg(o))

C5_Witness ==
    /\ pcMain = "lookups"
    /\ \E i, j \in Lookups :
          /\ req[i].pc = "done" /\ req[i].last = "transport"
          /\ req[i].out[1].value.status = "ERROR"
          /\ req[j].pc = "done" /\ req[j].last = "ok"
          /\ req[j].out[1].value.status = "PATCHED"

\* C6: when a bulk page still fails after the retries are used up, fetchRecentCves
\* throws and hands nothing to its caller: the items of the pages fetched before
\* are not returned
C6_PageFailureYieldsNothing ==
    /\ (Terminal(req[0]) /\ req[0].last \in {"429", "status", "transport", "unparsable"}) =>
          /\ req[0].pc = "threw"
          /\ req[0].out = Some([threw |-> TRUE, value |-> NULL])
    /\ (req[0].out # NULL /\ req[0].out[1].threw) => req[0].out[1].value = NULL
    /\ (pcMain = "failed") => recentResult = NULL

C6_Witness ==
    /\ req[0].pc = "threw"
    /\ req[0].attempts = MAX_RETRIES + 1
    /\ bulk.pageCount >= 1
    /\ Len(bulk.allCves) >= 1

\* C7: after attempt number k (k = 0, 1, 2) is answered with 429 the executor sleeps
\* RETRY_DELAY_MS * 2^k before the next attempt; when a success follows a 429 the
\* successful result is returned and the time since the first attempt is at least
\* the sum of the backoff delays
C7_BackoffDelays ==
    \A i \in Requesters :
        /\ (req[i].pc = "backoff") =>
              /\ req[i].attempts - 1 \in 0..(MAX_RETRIES - 1)
              /\ req[i].wakeAt - req[i].sleepFrom
                    = RETRY_DELAY_MS * Pow2(req[i].attempts - 1)
        /\ (req[i].pc = "done" /\ req[i].last = "ok" /\ req[i].n429 > 0) =>
              /\ now - req[i].firstAt >= req[i].sumDelay
              /\ ~req[i].out[1].threw
              /\ i # 0 => req[i].out[1].value = parseNvdCveResponse(BodyPatched)

C7_Witness ==
    \E i \in Lookups :
        /\ req[i].pc = "done" /\ req[i].last = "ok"
        /\ req[i].n429 = MAX_RETRIES
        /\ req[i].sumDelay = RETRY_DELAY_MS * (Pow2(MAX_RETRIES) - 1)
        /\ now - req[i].firstAt >= req[i].sumDelay

\* C8: every network call, retries and bulk pages included, follows its own
\* completed waitForRateLimit: the calls issued so far are never more than the
\* dispatch timestamps recorded so far
C8_CallsNeverExceedDispatches ==
    /\ stat.calls <= stat.dispatched
    /\ \A i \in Requesters : req[i].pc = "fetching" => stat.dispatched >= 1

C8_Witness ==
    /\ pcMain = "bulk"
    /\ req[0].pc = "fetching"
    /\ req[0].retryCount >= 1
    /\ stat.calls = stat.dispatched
    /\ stat.calls >= MaxCves + 2

-----------------------------------------------------------------------------
(* The throttle transitions: properties *)

\* C9: for a state with concurrency >= min_concurrency, throttleBackoff increases
\* consecutive_429s by exactly 1, sets consecutive_successes to 0, sets last_429_at
\* and makes concurrency max(min_concurrency, old concurrency - concurrency_step)
C9_BackoffCountersAndConcurrency ==
    (thr.op = "backoff" /\ thr.input.concurrency >= THROTTLE_BOUNDS.min_concurrency) =>
        /\ thr.output.consecutive_429s = thr.input.consecutive_429s + 1
        /\ thr.output.consecutive_successes = 0
        /\ thr.output.last_429_at = Some(now)
        /\ thr.output.concurrency =
              Max(THROTTLE_BOUNDS.min_concurrency,
                  thr.input.concurrency - THROTTLE_BOUNDS.concurrency_step)

C9_Witness ==
    /\ thr.op = "backoff"
    /\ thr.input.concurrency > THROTTLE_BOUNDS.min_concurrency
    /\ thr.input.consecutive_successes > 0
    /\ thr.input.last_429_at # Some(now)
    /\ thr.output.consecutive_429s = thr.input.consecutive_429s + 1

\* C10: throttleBackoff sets delay_ms to min(max_delay_ms, old delay_ms +
\* delay_step_ms * n), n being consecutive_429s after the increment, for every state
\* with delay_ms <= max_delay_ms
C10_BackoffDelay ==
    (thr.op = "backoff" /\ thr.input.delay_ms <= THROTTLE_BOUNDS.max_delay_ms) =>
        thr.output.delay_ms =
            Min(THROTTLE_BOUNDS.max_delay_ms,
                thr.input.delay_ms
                  + THROTTLE_BOUNDS.delay_step_ms * thr.output.consecutive_429s)

\* C10 (amended): the throttleBackoff that adjusts the delay (cache.ts:228-254) sets
\* delay_ms to min(max_delay_ms, old delay_ms + delay_step_ms * n), n being
\* consecutive_429s after the increment, for every state with delay_ms <=
\* max_delay_ms; the concurrency-only throttleBackoff (cache.ts:86-106) leaves
\* delay_ms as it was
C10_BackoffDelayByVersion ==
    (thr.op = "backoff" /\ thr.input.delay_ms <= THROTTLE_BOUNDS.max_delay_ms) =>
        IF cfg.cache = "delay"
        THEN thr.output.delay_ms =
                Min(THROTTLE_BOUNDS.max_delay_ms,
                    thr.input.delay_ms
                      + THROTTLE_BOUNDS.delay_step_ms * thr.output.consecutive_429s)
        ELSE thr.output.delay_ms = thr.input.delay_ms

C10_Witness ==
    /\ thr.op = "backoff"
    /\ cfg.cache = "delay"
    /\ thr.input.consecutive_429s >= 1
    /\ thr.input.delay_ms < THROTTLE_BOUNDS.max_delay_ms - THROTTLE_BOUNDS.delay_step_ms
    /\ thr.output.delay_ms
          = thr.input.delay_ms
              + THROTTLE_BOUNDS.delay_step_ms * (thr.input.consecutive_429s + 1)

\* what the claim says of a speedup: the counters, and at the threshold the reset
\* with the concurrency raised and the delay lowered inside their bounds
SpeedupAsClaimed(in, out) ==
    /\ out.consecutive_429s = 0
    /\ IF in.consecutive_successes + 1 < THROTTLE_BOUNDS.speedup_threshold
       THEN /\ out.consecutive_successes = in.consecutive_successes + 1
            /\ out.concurrency = in.concurrency
            /\ out.delay_ms = in.delay_ms
       ELSE /\ out.consecutive_successes = 0
            /\ out.concurrency = Min(THROTTLE_BOUNDS.max_concurrency,
                                     in.concurrency + THROTTLE_BOUNDS.concurrency_step)
            /\ out.delay_ms = Max(THROTTLE_BOUNDS.min_delay_ms,
                                  in.delay_ms - THROTTLE_BOUNDS.delay_step_ms)

\* C11: throttleSpeedup increments consecutive_successes and zeroes consecutive_429s;
\* below speedup_threshold it leaves concurrency and delay_ms alone; at the threshold
\* it resets the counter to 0, sets concurrency to min(max_concurrency, concurrency +
\* concurrency_step) and delay_ms to max(min_delay_ms, delay_ms - delay_step_ms)
C11_Speedup ==
    (thr.op = "speedup") => SpeedupAsClaimed(thr.input, thr.output)

\* C11 (amended): the throttleSpeedup that adjusts the delay (cache.ts:257-291) does
\* what is claimed for every state with concurrency <= max_concurrency and delay_ms >=
\* min_delay_ms, and leaves a concurrency above the maximum or a delay below the
\* minimum as it is; the concurrency-only throttleSpeedup (cache.ts:109-139) never
\* changes delay_ms and, at the threshold, resets the counter and raises the
\* concurrency only when concurrency < max_concurrency: otherwise the counter keeps
\* its incremented value
C11_SpeedupByVersion ==
    (thr.op = "speedup") =>
        LET in  == thr.input
            out == thr.output
            n   == in.consecutive_successes + 1
        IN  /\ out.consecutive_429s = 0
            /\ out.last_success_at = Some(now)
            /\ IF n < THROTTLE_BOUNDS.speedup_threshold
               THEN /\ out.consecutive_successes = n
                    /\ out.concurrency = in.concurrency
                    /\ out.delay_ms = in.delay_ms
               ELSE IF cfg.cache = "delay"
               THEN /\ out.consecutive_successes = 0
                    /\ out.concurrency =
                          IF in.concurrency <= THROTTLE_BOUNDS.max_concurrency
                          THEN Min(THROTTLE_BOUNDS.max_concurrency,
                                   in.concurrency + THROTTLE_BOUNDS.concurrency_step)
                          ELSE in.concurrency
                    /\ out.delay_ms =
                          IF in.delay_ms >= THROTTLE_BOUNDS.min_delay_ms
                          THEN Max(THROTTLE_BOUNDS.min_delay_ms,
                                   in.delay_ms - THROTTLE_BOUNDS.delay_step_ms)
                          ELSE in.delay_ms
               ELSE /\ out.delay_ms = in.delay_ms
                    /\ IF in.concurrency < THROTTLE_BOUNDS.max_concurrency
                       THEN /\ out.consecutive_successes = 0
                            /\ out.concurrency =
                                  Min(THROTTLE_BOUNDS.max_concurrency,
                                      in.concurrency + THROTTLE_BOUNDS.concurrency_step)
                       ELSE /\ out.consecutive_successes = n
                            /\ out.concurrency = in.concurrency

C11_Witness ==
    /\ thr.op = "speedup"
    /\ cfg.cache = "delay"
    /\ thr.input.consecutive_successes = THROTTLE_BOUNDS.speedup_threshold - 1
    /\ thr.input.consecutive_429s > 0
    /\ thr.input.delay_ms = THROTTLE_BOUNDS.min_delay_ms + THROTTLE_BOUNDS.delay_step_ms
    /\ thr.output.delay_ms = THROTTLE_BOUNDS.min_delay_ms
    /\ thr.output.consecutive_successes = 0

-----------------------------------------------------------------------------
(* The run and its throttle state: properties *)

\* the run has applied its throttle transition, with the cache enabled and no 429 seen
RanWithout429 ==
    pcMain \in {"saving", "done"} /\ isCacheEnabled /\ ~stat.seen429

\* C12: after a run with zero 429s observed throttleSpeedup has been applied once
\* to the state loaded at the start, one loaded from the persisted record included:
\* consecutive_successes is one more than before the run, or, where that reaches
\* speedup_threshold, what the transition of the version makes of it (0 in the
\* delay-adjusting version; the concurrency-only version, at its maximum
\* concurrency, goes on counting); concurrency differs from its pre-run value only
\* when the pre-run counter was speedup_threshold - 1 or more
C12_SuccessfulRun ==
    RanWithout429 =>
        /\ thr.op = "speedup"
        /\ thr.output = throttleState
        /\ thr.output.consecutive_successes =
              IF thr.input.consecutive_successes + 1 < THROTTLE_BOUNDS.speedup_threshold
              THEN thr.input.consecutive_successes + 1
              ELSE IF cfg.cache = "delay" THEN 0
              ELSE IF thr.input.concurrency >= THROTTLE_BOUNDS.max_concurrency
              THEN thr.input.consecutive_successes + 1
              ELSE 0
        /\ thr.output.concurrency # thr.input.concurrency =>
              thr.input.consecutive_successes >= THROTTLE_BOUNDS.speedup_threshold - 1

-----------------------------------------------------------------------------
(* The persisted record: properties *)

WithinBounds(state) ==
    /\ state.concurrency >= THROTTLE_BOUNDS.min_concurrency
    /\ state.concurrency <= THROTTLE_BOUNDS.max_concurrency
    /\ state.delay_ms >= THROTTLE_BOUNDS.min_delay_ms
    /\ state.delay_ms <= THROTTLE_BOUNDS.max_delay_ms

\* C13: whatever integers the persisted record holds for concurrency and delay_ms,
\* loadThrottleState returns a state with min_concurrency <= concurrency <=
\* max_concurrency and min_delay_ms <= delay_ms <= max_delay_ms; without a record it
\* returns the default state
C13_LoadWithinBounds ==
    /\ (thr.op = "load") => WithinBounds(thr.output)
    /\ (thr.op = "loadAbsent") => thr.output = DEFAULT_THROTTLE

\* C14: when the persisted record has concurrency above max_concurrency or delay_ms
\* below min_delay_ms, loadThrottleState discards the whole record and returns
\* DEFAULT_THROTTLE: counters 0 and timestamps none
C14_LoadDiscardsWholeRecord ==
    (thr.op = "load"
       /\ (thr.input.concurrency > THROTTLE_BOUNDS.max_concurrency
             \/ thr.input.delay_ms < THROTTLE_BOUNDS.min_delay_ms)) =>
        thr.output = DEFAULT_THROTTLE

\* C14 (amended): the loadThrottleState that validates (cache.ts:200-218) discards a
\* record with concurrency above max_concurrency or delay_ms below min_delay_ms and
\* returns DEFAULT_THROTTLE, and returns any other record as it is; the clamping
\* loadThrottleState (cache.ts:60-76) keeps every record and only brings its
\* concurrency into [min_concurrency, max_concurrency]: delay_ms, the counters and
\* the timestamps stay as persisted
C14_LoadByVersion ==
    (thr.op = "load") =>
        IF cfg.cache = "delay"
        THEN thr.output =
                IF thr.input.concurrency > THROTTLE_BOUNDS.max_concurrency
                     \/ thr.input.delay_ms < THROTTLE_BOUNDS.min_delay_ms
                THEN DEFAULT_THROTTLE
                ELSE thr.input
        ELSE thr.output =
                [thr.input EXCEPT !.concurrency =
                    Max(THROTTLE_BOUNDS.min_concurrency,
                        Min(THROTTLE_BOUNDS.max_concurrency, @))]

C14_Witness ==
    /\ thr.op = "load"
    /\ cfg.cache = "delay"
    /\ thr.input.concurrency > THROTTLE_BOUNDS.max_concurrency
    /\ thr.input.consecutive_429s > 0
    /\ thr.input.consecutive_successes > 0
    /\ thr.input.last_429_at # NULL
    /\ thr.output = DEFAULT_THROTTLE

\* C15: a ThrottleState with every field inside the configured bounds that is saved
\* with success and loaded again comes back with the same value in every field
C15_RoundTrip ==
    (thr.op = "load" /\ WithinBounds(thr.input)) => thr.output = thr.input

C15_Witness ==
    /\ thr.op = "load"
    /\ WithinBounds(thr.input)
    /\ thr.input.delay_ms > THROTTLE_BOUNDS.min_delay_ms
    /\ thr.input.last_429_at # NULL
    /\ thr.input.consecutive_429s > 0
    /\ thr.input.consecutive_successes > 0
    /\ s3Record = putObject(thr.input)
    /\ thr.output = thr.input

-----------------------------------------------------------------------------
(* main: properties *)

\* C16: a run with the cache enabled that reaches its end applies exactly one
\* throttle transition, throttleBackoff when the 429 flag is set and throttleSpeedup
\* otherwise; the transition and the save come only after every single lookup and
\* the bulk fetch have completed, never while a request is in flight, and until then
\* the state read at the start is unchanged
C16_OneTransitionAfterAllRequests ==
    /\ (pcMain \in {"lookups", "bulk", "throttle", "failed"}) =>
          /\ thr.op = "none"
          /\ stat.transitions = 0
          /\ stat.saves = 0
    /\ (isCacheEnabled /\ pcMain \in {"lookups", "bulk", "throttle"}) =>
          throttleState = Load(cfg.cache, getObject(s3Record, stat.readOk))
    /\ (stat.transitions > 0 \/ stat.saves > 0) =>
          \A i \in Requesters : req[i].pc = "done" /\ req[i].out # NULL
    /\ (isCacheEnabled /\ pcMain \in {"saving", "done"}) =>
          /\ stat.transitions = 1
          /\ stat.saves = IF pcMain = "done" THEN 1 ELSE 0
          /\ thr.op = IF had429Error THEN "backoff" ELSE "speedup"
          /\ thr.output = throttleState
          /\ throttleState = IF had429Error THEN Backoff(cfg.cache, thr.input, now)
                             ELSE Speedup(cfg.cache, thr.input, now)
    /\ (isCacheEnabled /\ pcMain = "saving") =>
          thr.input = Load(cfg.cache, getObject(s3Record, stat.readOk))
    /\ (~isCacheEnabled) => stat.transitions = 0 /\ stat.saves = 0

C16_Witness ==
    /\ isCacheEnabled
    /\ pcMain = "done"
    /\ had429Error
    /\ thr.op = "backoff"
    /\ stat.transitions = 1
    /\ s3Record = putObject(throttleState)
    /\ stat.calls >= MaxCves + 2

\* C17: the single lookups that have started and not yet returned are never more
\* than throttleState.concurrency; a lookup suspended in the limiter or in a retry
\* backoff counts among them, and a lookup that holds no slot issues no network call
C17_GateBoundsLookups ==
    /\ Cardinality(Active) <= throttleState.concurrency
    /\ \A i \in Lookups :
          /\ req[i].pc \in {"limiter", "rl_sleep", "acquired", "fetching", "backoff"}
                => i \in Active
          /\ req[i].pc = "queued" => req[i].attempts = 0 /\ req[i].out = NULL
    /\ stat.calls > 0 => pcMain # "start"
    /\ pcMain # "lookups" => Active = {}

C17_Witness ==
    /\ pcMain = "lookups"
    /\ Queued # {}
    /\ Cardinality(Active) = throttleState.concurrency
    /\ \E i \in Active : req[i].pc = "backoff"

-----------------------------------------------------------------------------
(* The bulk paginator: properties *)

\* the paginator is between two pages: one is fetched, the next is being requested
RequestingNextPage ==
    pcMain = "bulk" /\ bulk.pageCount >= 1 /\ ~Terminal(req[0])

\* C18: fetchRecentCves never returns more than maxResults items and requests no
\* further page once startIndex has reached totalResults or maxResults items are
\* collected; with maxResults = 10 and totalResults = 25 it requests exactly one
\* page and returns exactly 10 items, the first 10 of the page in order
C18_PaginatorStopsAtLimits ==
    /\ Len(bulk.allCves) <= MaxResults(cfg)
    /\ (req[0].out # NULL /\ ~req[0].out[1].threw) =>
          Len(req[0].out[1].value[1].cves) <= MaxResults(cfg)
    /\ RequestingNextPage =>
          /\ bulk.startIndex < bulk.totalResults
          /\ Len(bulk.allCves) < MaxResults(cfg)
    /\ (pcMain = "bulk" /\ req[0].pc = "done") =>
          /\ ~ContinuePaging(bulk.startIndex, bulk.totalResults,
                             Len(bulk.allCves), MaxResults(cfg))
          /\ req[0].out[1].value[1].cves = bulk.allCves
    /\ (pcMain = "bulk" /\ req[0].pc = "done"
          /\ MaxResults(cfg) = 10 /\ bulk.totalResults = 25) =>
          /\ bulk.pageCount = 1
          /\ bulk.startIndex = RESULTS_PER_PAGE
          /\ req[0].out[1].value[1].cves = [j \in 1..10 |-> j]

C18_Witness ==
    /\ pcMain = "bulk"
    /\ req[0].pc = "done"
    /\ MaxResults(cfg) = 10
    /\ bulk.totalResults = 25
    /\ bulk.pageCount = 1
    /\ Len(req[0].out[1].value[1].cves) = 10

-----------------------------------------------------------------------------
(* The limiter under concurrent callers: properties *)

\* how long the suspended caller sleeps in waitForRateLimit
Suspension(r) == r.wakeAt - r.sleepFrom

\* C19: FIFO admission: when caller A entered waitForRateLimit before caller B and
\* both are suspended, A is due to record its dispatch no later than B and A's
\* suspension is not longer than B's
C19_FifoAdmission ==
    \A a, b \in Requesters :
        (req[a].pc = "rl_sleep" /\ req[b].pc = "rl_sleep"
           /\ req[a].sleepFrom < req[b].sleepFrom) =>
            /\ req[a].wakeAt <= req[b].wakeAt
            /\ Suspension(req[a]) <= Suspension(req[b])

\* the entries that are not older than windowStart
NotOlder(ts, windowStart) == SelectSeq(ts, LAMBDA x : x >= windowStart)

\* C20: requestTimestamps is sorted oldest first at all times, whatever the
\* interleaving of the callers, so pruning from the front removes exactly the
\* entries older than now - W
C20_TimestampsSorted ==
    /\ \A k \in 1..(Len(requestTimestamps) - 1) :
          requestTimestamps[k] <= requestTimestamps[k + 1]
    /\ Prune(requestTimestamps, now - RATE_LIMIT_WINDOW_MS)
          = NotOlder(requestTimestamps, now - RATE_LIMIT_WINDOW_MS)

\* two lookups in flight, entries of different times, and fewer entries left
\* than dispatches recorded: the front has been pruned
C20_Witness ==
    /\ Cardinality(Active) >= 2
    /\ Len(requestTimestamps) >= 2
    /\ requestTimestamps[1] < requestTimestamps[Len(requestTimestamps)]
    /\ stat.dispatched > Len(requestTimestamps)

-----------------------------------------------------------------------------
(* The parsers: properties *)

\* the references of a drawn body (none when the vulnerabilities list is empty)
ReferencesOf(body) ==
    IF Len(body.vulnerabilities) > 0 THEN body.vulnerabilities[1].references ELSE <<>>

AnyTagged(refs, tags) == \E k \in DOMAIN refs : refs[k].tags \cap tags # {}

\* C21: a parsed single-CVE response is PATCHED if any reference has the tag
\* Patch, otherwise MITIGATION_ONLY if any reference has the tag Vendor Advisory
\* or Mitigation, otherwise UNPATCHED (empty reference list and empty
\* vulnerabilities list included); Patch wins over the other tags
C21_Classification ==
    thr.op = "parse" =>
        LET refs == ReferencesOf(thr.input)
        IN  thr.output.status =
              IF AnyTagged(refs, {"Patch"}) THEN "PATCHED"
              ELSE IF AnyTagged(refs, {"Vendor Advisory", "Mitigation"}) THEN "MITIGATION_ONLY"
              ELSE "UNPATCHED"

\* a Patch tag together with an advisory tag has been classified
C21_Witness ==
    /\ thr.op = "parse"
    /\ AnyTagged(ReferencesOf(thr.input), {"Patch"})
    /\ AnyTagged(ReferencesOf(thr.input), {"Vendor Advisory", "Mitigation"})
    /\ thr.output.status = "PATCHED"

\* the metric versions of a drawn body in the order of preference
VersionsOf(body) ==
    IF Len(body.vulnerabilities) > 0
    THEN << body.vulnerabilities[1].metrics.cvssMetricV31,
            body.vulnerabilities[1].metrics.cvssMetricV30,
            body.vulnerabilities[1].metrics.cvssMetricV2 >>
    ELSE << <<>>, <<>>, <<>> >>

\* the body with its references removed
WithoutReferences(body) ==
    IF Len(body.vulnerabilities) > 0
    THEN [vulnerabilities |-> << [body.vulnerabilities[1] EXCEPT !.references = <<>>] >>]
    ELSE body

\* C22: score and severity come from the first entry of the first metric version
\* present in the order v3.1, v3.0, v2.0, whatever the references are; a v3.1
\* entry without base score gives null although later versions have one, and no
\* version present gives null for both
C22_CvssFirstVersionPresent ==
    thr.op \in {"parse", "parseRecent"} =>
        LET vs == VersionsOf(thr.input)
            present == {k \in 1..3 : Len(vs[k]) > 0}
        IN  /\ present = {} =>
                  /\ thr.output.cvss_score = NULL
                  /\ thr.output.cvss_severity = NULL
            /\ present # {} =>
                  LET k == SetMin(present)
                      e == vs[k][1]
                  IN  /\ thr.output.cvss_score =
                            (IF e.cvssData = NULL THEN NULL ELSE e.cvssData[1].baseScore)
                      /\ thr.output.cvss_severity \in
                            { e.baseSeverity,
                              IF e.cvssData = NULL THEN NULL ELSE e.cvssData[1].baseSeverity }
            /\ thr.op = "parse" =>
                  LET bare == parseNvdCveResponse(WithoutReferences(thr.input))
                  IN  /\ thr.output.cvss_score = bare.cvss_score
                      /\ thr.output.cvss_severity = bare.cvss_severity

\* a v3.1 entry without base score was parsed while v3.0 holds a scored entry
C22_Witness ==
    /\ thr.op \in {"parse", "parseRecent"}
    /\ Len(VersionsOf(thr.input)[1]) > 0
    /\ VersionsOf(thr.input)[1][1] = UnscoredEntry
    /\ Len(VersionsOf(thr.input)[2]) > 0
    /\ VersionsOf(thr.input)[2][1] = ScoredEntry("V30")
    /\ thr.output.cvss_score = NULL

-----------------------------------------------------------------------------
(* One call of waitForRateLimit: properties *)

\* C23: a call of waitForRateLimit first prunes every timestamp older than
\* now - W; with fewer than N left it is not suspended and appends one timestamp;
\* with N or more left it suspends for timestamps[0] + W - now + 100 ms, prunes
\* again with the new time and appends one timestamp. Each call appends exactly
\* one timestamp and no timestamp inside the trailing window is ever pruned.
C23_OneLimiterCall ==
    [][ LET windowStart == now - RATE_LIMIT_WINDOW_MS
            kept == NotOlder(requestTimestamps, windowStart)
        IN  /\ \A i \in Requesters :
                 /\ (req[i].pc = "limiter" /\ req'[i].pc # "limiter") =>
                       IF Len(kept) < RATE_LIMIT_REQUESTS(cfg.apiKey)
                       THEN /\ req'[i].pc = "acquired"
                            /\ requestTimestamps' = Append(kept, now)
                            /\ stat'.dispatched = stat.dispatched + 1
                       ELSE /\ req'[i].pc = "rl_sleep"
                            /\ req'[i].wakeAt - now =
                                 kept[1] + RATE_LIMIT_WINDOW_MS - now + RATE_LIMIT_BUFFER_MS
                            /\ requestTimestamps' = kept
                            /\ stat'.dispatched = stat.dispatched
                 /\ (req[i].pc = "rl_sleep" /\ req'[i].pc # "rl_sleep") =>
                       /\ req'[i].pc = "acquired"
                       /\ now >= req[i].wakeAt
                       /\ requestTimestamps' = Append(kept, now)
                       /\ stat'.dispatched = stat.dispatched + 1
            /\ now' = now =>
                 LET keptAfter == NotOlder(requestTimestamps', windowStart)
                 IN  /\ Len(keptAfter) >= Len(kept)
                     /\ SubSeq(keptAfter, 1, Len(kept)) = kept
            /\ (\A i \in Requesters :
                   req[i].pc \in {"limiter", "rl_sleep"} => req'[i].pc = req[i].pc) =>
                 requestTimestamps' = requestTimestamps
      ]_vars

\* a caller was suspended before its first attempt (so that no backoff preceded),
\* has woken at the time it computed, and its dispatch is the newest entry of a
\* sequence whose front was pruned
C23_Witness ==
    \E i \in Requesters :
        /\ req[i].pc = "acquired"
        /\ req[i].attempts = 0
        /\ req[i].wakeAt > req[i].sleepFrom
        /\ req[i].wakeAt = now
        /\ Len(requestTimestamps) > 0
        /\ requestTimestamps[Len(requestTimestamps)] = now
        /\ stat.dispatched > Len(requestTimestamps)

-----------------------------------------------------------------------------
(* The retry loop of one bulk page: properties *)

\* C24: whatever the outcomes of the attempts for one bulk page, the retry loop
\* issues at most MAX_RETRIES + 1 network calls and ends either with a successful
\* response or by throwing; it is never left by its condition, with or without a
\* response
C24_PageLoopEndsWithResponseOrThrow ==
    pcMain = "bulk" =>
        /\ req[0].attempts <= MAX_RETRIES + 1
        /\ PageLoopContinues(req[0].retryCount)
        /\ req[0].last # "exhausted"
        /\ req[0].pc = "done" =>
              /\ bulk.response # NULL
              /\ StatusOk(bulk.response[1])
              /\ ~req[0].out[1].threw
        /\ req[0].pc = "threw" => req[0].out[1].threw
        /\ (req[0].pc = "threw" /\ req[0].last # "unparsable") => req[0].retryCount = MAX_RETRIES

\* the loop ended on its fourth call after a mix of 429 and other failures
C24_Witness ==
    /\ pcMain = "bulk"
    /\ req[0].pc \in {"done", "threw"}
    /\ req[0].attempts = MAX_RETRIES + 1
    /\ req[0].n429 > 0
    /\ req[0].n429 < req[0].attempts - 1

-----------------------------------------------------------------------------
(* waitForRateLimit returns: properties *)

\* the wait a caller entering waitForRateLimit now would compute
WaitOnEntry == LimiterEnter(requestTimestamps, now, cfg.apiKey)

\* the callers inside waitForRateLimit
InLimiter == {i \in Requesters : req[i].pc \in {"limiter", "rl_sleep"}}

\* C25: every call of waitForRateLimit returns; it suspends at most once, and the
\* wait it computes when the window is full lies between 100 ms and W + 100 ms
\* whatever the other callers did: never zero or negative, never without end.
\* A caller leaves waitForRateLimit only by returning, after at most one sleep,
\* and again and again no caller is inside it: no call stays inside for ever
C25_LimiterCallReturns ==
    /\ [](\A i \in 0..RaceCves :
            (i \in Requesters /\ req[i].pc = "limiter" /\ WaitOnEntry.full) =>
                /\ WaitOnEntry.sleeps
                /\ WaitOnEntry.waitTime >= RATE_LIMIT_BUFFER_MS
                /\ WaitOnEntry.waitTime <= RATE_LIMIT_WINDOW_MS + RATE_LIMIT_BUFFER_MS)
    /\ [](\A i \in 0..RaceCves :
            (i \in Requesters /\ req[i].pc = "rl_sleep") =>
                /\ Suspension(req[i]) >= RATE_LIMIT_BUFFER_MS
                /\ Suspension(req[i]) <= RATE_LIMIT_WINDOW_MS + RATE_LIMIT_BUFFER_MS)
    /\ [][\A i \in 0..RaceCves :
            /\ (i \in Requesters /\ req[i].pc = "rl_sleep") =>
                  req'[i].pc \in {"rl_sleep", "acquired"}
            /\ (i \in Requesters /\ req[i].pc = "limiter") =>
                  req'[i].pc \in {"limiter", "rl_sleep", "acquired"}]_vars
    /\ []<>(InLimiter = {})

\* a caller suspended by a full window before its first attempt (so that no
\* backoff preceded) has returned from waitForRateLimit while another caller,
\* which entered during that sleep, is still suspended in it
C25_Witness ==
    \E i, j \in Requesters :
        /\ i # j
        /\ req[i].pc = "acquired"
        /\ req[i].attempts = 0
        /\ Suspension(req[i]) >= RATE_LIMIT_BUFFER_MS
        /\ req[i].wakeAt <= now
        /\ Len(requestTimestamps) > 0
        /\ requestTimestamps[Len(requestTimestamps)] = now
        /\ req[j].pc = "rl_sleep"
        /\ req[j].sleepFrom >= req[i].sleepFrom
        /\ req[j].sleepFrom < req[i].wakeAt

-----------------------------------------------------------------------------
(* A run whose bulk fetch fails: properties *)

\* C26: when fetchRecentCves throws the run ends in failure before any throttle
\* transition: neither throttleBackoff nor saveThrottleState is executed and the
\* persisted record stays the record read at the start, 429s observed or not
C26_BulkFailureLeavesRecord ==
    /\ []( (req[0].pc = "threw" /\ pcMain # "bulk") => pcMain = "failed" )
    /\ []( pcMain = "failed" =>
              /\ req[0].pc = "threw"
              /\ stat.transitions = 0
              /\ stat.saves = 0
              /\ thr.op = "none"
              /\ isCacheEnabled => throttleState = Load(cfg.cache, getObject(s3Record, stat.readOk)) )
    /\ [][ /\ pcMain # "failed"
           /\ s3Record' # s3Record => stat'.saves = stat.saves + 1 ]_vars

\* a run with the cache and a stored record saw a 429 and ended by the failure of
\* the bulk fetch
C26_Witness ==
    /\ pcMain = "failed"
    /\ isCacheEnabled
    /\ s3Record # NULL
    /\ stat.seen429
    /\ stat.calls > MaxCves

-----------------------------------------------------------------------------
(* The throttle state over many runs: each run reads the record of the run      *)
(* before it, ends with one transition, throttleBackoff when it saw a 429 and   *)
(* throttleSpeedup when it did not, and writes the new state back.  A read or a *)
(* write of the record may fail; the next run then starts from the defaults or  *)
(* from the older record.  The first record is any state within the bounds;     *)
(* pcMain tells what the runs are: any mix of runs, any mix starting with an    *)
(* empty bucket, only runs with a 429, or only runs without.                    *)

MaxStreak == 20

RatchetInputs ==
    {DEFAULT_THROTTLE} \cup
    { s \in ThrottleInputs :
        /\ WithinBounds(s)
        /\ s.last_429_at = NULL
        /\ s.delay_ms \in { THROTTLE_BOUNDS.min_delay_ms,
                            THROTTLE_BOUNDS.min_delay_ms + THROTTLE_BOUNDS.delay_step_ms,
                            THROTTLE_BOUNDS.max_delay_ms - THROTTLE_BOUNDS.delay_step_ms,
                            THROTTLE_BOUNDS.max_delay_ms } }

InitRatchet ==
    /\ cfg \in {c \in Configs : c.s3 /\ c.apiKey /\ c.limitArg = 0}
    /\ pcMain \in {"anyRuns", "fromDefault", "all429", "allClean"}
    /\ s3Record \in (IF pcMain = "fromDefault" THEN {NULL}
                     ELSE {putObject(s) : s \in RatchetInputs})
    /\ now = ThrottleCallTime
    /\ ticks = 0
    /\ requestTimestamps = <<>>
    /\ stat = NoHistory
    /\ throttleState = DEFAULT_THROTTLE
    /\ had429Error = FALSE
    /\ req = [i \in Requesters |-> NewRequest(IF i = 0 THEN "idle" ELSE "queued")]
    /\ bulk = NewBulk
    /\ recentResult = NULL
    /\ collect = NoCollect
    /\ thr = NoTransition

\* index.ts:552, 660-667: one run of the tool as the throttle record sees it:
\* loadThrottleState, the transition chosen by had429Error, saveThrottleState
Run(saw429, readOk, saveOk) ==
    \E loaded \in {Load(cfg.cache, getObject(s3Record, readOk))},
       kept \in {Load(cfg.cache, getObject(s3Record, TRUE))} :
    \E newState \in {IF saw429 THEN Backoff(cfg.cache, loaded, now)
                                ELSE Speedup(cfg.cache, loaded, now)} :
        \* the runs are followed until the streak in the record is MaxStreak long
        /\ (IF saw429 THEN kept.consecutive_429s
                      ELSE kept.consecutive_successes) < MaxStreak
        /\ had429Error' = saw429
        /\ throttleState' = newState
        /\ thr' = [thr EXCEPT !.op = IF saw429 THEN "backoff" ELSE "speedup"]
        /\ s3Record' = IF saveOk THEN putObject(newState) ELSE s3Record
        /\ stat' = [stat EXCEPT !.readOk = readOk, !.saveOk = saveOk]
        /\ UNCHANGED <<cfg, now, ticks, requestTimestamps, pcMain, req, bulk,
                       recentResult, collect>>

\* index.ts:660-663, 667: a run that saw a 429 ends with throttleBackoff
RunWith429 ==
    /\ pcMain \in {"anyRuns", "fromDefault", "all429"}
    /\ \E readOk \in (IF s3Record # NULL THEN BOOLEAN ELSE {TRUE}), saveOk \in BOOLEAN :
          Run(TRUE, readOk, saveOk)

\* index.ts:664-667: a run that saw no 429 ends with throttleSpeedup
RunWithout429 ==
    /\ pcMain \in {"anyRuns", "fromDefault", "allClean"}
    /\ \E readOk \in (IF s3Record # NULL THEN BOOLEAN ELSE {TRUE}), saveOk \in BOOLEAN :
          Run(FALSE, readOk, saveOk)

NextRatchet ==
    \/ RunWith429
    \/ RunWithout429

\* the tool is run again and again
SpecRatchet == InitRatchet /\ [][NextRatchet]_vars /\ WF_vars(NextRatchet)

\* C27: from a state with concurrency and delay_ms within their bounds, any finite
\* sequence of throttleBackoff and throttleSpeedup leaves concurrency and delay_ms
\* within the bounds and both counters non-negative
C27_BoundsPreserved ==
    /\ WithinBounds(throttleState)
    /\ throttleState.consecutive_successes >= 0
    /\ throttleState.consecutive_429s >= 0

\* the delay stands at its ceiling after a sequence of transitions of both kinds
C27_Witness ==
    /\ pcMain = "anyRuns"
    /\ thr.op = "backoff"
    /\ throttleState.last_success_at # NULL
    /\ throttleState.consecutive_429s > MaxCounter + 1
    /\ throttleState.delay_ms = THROTTLE_BOUNDS.max_delay_ms

\* C28: in every throttle state reachable from DEFAULT_THROTTLE by throttleBackoff
\* and throttleSpeedup at least one of consecutive_successes and consecutive_429s
\* is 0, and consecutive_successes is below speedup_threshold
C28_CountersExclusive ==
    pcMain = "fromDefault" =>
        /\ throttleState.consecutive_successes = 0 \/ throttleState.consecutive_429s = 0
        /\ throttleState.consecutive_successes < THROTTLE_BOUNDS.speedup_threshold

\* C28, by version of cache.ts: one of the two counters is 0 in both versions;
\* consecutive_successes stays below speedup_threshold in the version that adjusts
\* delay_ms, while the concurrency-only version, whose concurrency is at
\* max_concurrency, keeps counting
C28_CountersExclusiveByVersion ==
    pcMain = "fromDefault" =>
        /\ throttleState.consecutive_successes = 0 \/ throttleState.consecutive_429s = 0
        /\ cfg.cache = "delay" =>
              throttleState.consecutive_successes < THROTTLE_BOUNDS.speedup_threshold
        /\ cfg.cache = "concurrencyOnly" =>
              throttleState.concurrency = THROTTLE_BOUNDS.max_concurrency

\* starting from the default, the delay-adjusting version has backed off and then
\* counted successful runs up to one below the threshold
C28_Witness ==
    /\ pcMain = "fromDefault"
    /\ cfg.cache = "delay"
    /\ thr.op = "speedup"
    /\ throttleState.last_429_at # NULL
    /\ throttleState.consecutive_successes = THROTTLE_BOUNDS.speedup_threshold - 1
    /\ throttleState.delay_ms > THROTTLE_BOUNDS.min_delay_ms
    /\ throttleState.delay_ms < DEFAULT_THROTTLE.delay_ms
          + THROTTLE_BOUNDS.delay_step_ms * 3

-----------------------------------------------------------------------------
(* The direction of the throttle transitions: properties *)

\* C29: for every input state with non-negative counters throttleBackoff never
\* raises concurrency and never lowers delay_ms, throttleSpeedup never lowers
\* concurrency and never raises delay_ms, and the state object given to either is
\* left as it was
C29_RatchetDirection ==
    [][ ( /\ thr.op = "none"
          /\ thr'.op \in {"backoff", "speedup"}
          /\ throttleState.consecutive_successes >= 0
          /\ throttleState.consecutive_429s >= 0 ) =>
            /\ thr'.op = "backoff" =>
                  /\ thr'.output.concurrency <= throttleState.concurrency
                  /\ thr'.output.delay_ms >= throttleState.delay_ms
            /\ thr'.op = "speedup" =>
                  /\ thr'.output.concurrency >= throttleState.concurrency
                  /\ thr'.output.delay_ms <= throttleState.delay_ms
            /\ thr'.input = throttleState
      ]_vars

\* throttleBackoff has raised the delay of a state below the ceiling and counted
\* the 429 in the object it returned, and the object it was given still holds the
\* lower delay and the old count
C29_Witness ==
    /\ thr.op = "backoff"
    /\ cfg.cache = "delay"
    /\ thr.output.delay_ms > thr.input.delay_ms
    /\ thr.output.concurrency = thr.input.concurrency
    /\ thr.input.delay_ms < THROTTLE_BOUNDS.max_delay_ms
    /\ thr.output.consecutive_429s = thr.input.consecutive_429s + 1
    /\ thr.input.last_429_at = NULL

-----------------------------------------------------------------------------
(* Convergence of delay_ms: properties *)

AtMaxDelay == throttleState.delay_ms = THROTTLE_BOUNDS.max_delay_ms
AtMinDelay == throttleState.delay_ms = THROTTLE_BOUNDS.min_delay_ms

\* C30: from any state within the bounds, when every following run observes a 429
\* delay_ms reaches max_delay_ms after finitely many runs and stays there, and when
\* every following run is free of 429s delay_ms reaches min_delay_ms after finitely
\* many runs and stays there
C30_DelayConverges ==
    /\ pcMain = "all429" => <>[]AtMaxDelay
    /\ pcMain = "allClean" => <>[]AtMinDelay

\* the last run read the record and wrote it back
RecordKept == stat.readOk /\ stat.saveOk

\* C30, by version of cache.ts: the convergence holds in the version that adjusts
\* delay_ms, for runs that from some run on all read the record and write it back
\* (a run whose read or write fails starts the count again from the defaults or
\* from the older record); a run of the concurrency-only version ends with the
\* delay_ms it loaded
C30_DelayConvergesByVersion ==
    /\ (pcMain = "all429" /\ cfg.cache = "delay") =>
          ([]<>~RecordKept \/ <>[]AtMaxDelay)
    /\ (pcMain = "allClean" /\ cfg.cache = "delay") =>
          ([]<>~RecordKept \/ <>[]AtMinDelay)
    /\ [][cfg.cache = "concurrencyOnly" =>
              throttleState'.delay_ms
                 = Load(cfg.cache, getObject(s3Record, stat'.readOk)).delay_ms]_vars

\* runs with a 429 only have brought the delay from the floor to the ceiling, the
\* last of them having read the record and written it back
C30_Witness ==
    /\ pcMain = "all429"
    /\ cfg.cache = "delay"
    /\ thr.op = "backoff"
    /\ had429Error
    /\ RecordKept
    /\ s3Record = putObject(throttleState)
    /\ AtMaxDelay
    /\ throttleState.consecutive_429s * (throttleState.consecutive_429s + 1)
          * THROTTLE_BOUNDS.delay_step_ms
          >= 2 * (THROTTLE_BOUNDS.max_delay_ms - THROTTLE_BOUNDS.min_delay_ms)
    /\ throttleState.consecutive_429s < MaxStreak

-----------------------------------------------------------------------------
(* checkAllCves of the first version of index.ts: the CVEs are looked up in       *)
(* batches of CONCURRENCY, the results of a batch are appended when all of its    *)
(* lookups have resolved, and the loop sleeps DELAY_MS between two batches.        *)
(* The lookups of a batch run at once and resolve in any order; a response takes   *)
(* no time, the clock advances when the next timer set by sleep() fires.            *)

MaxBatchCves == 3     \* CVEs of a batched run

\* index.ts (first version):28
CONCURRENCY(c) == IF c.apiKey THEN 5 ELSE 2

\* index.ts (first version):29
DELAY_MS(c) == IF c.apiKey THEN 1200 ELSE 6500

\* index.ts (first version):166-168: the locals of checkAllCves before the loop
InitBatched ==
    /\ cfg \in [ apiKey : BOOLEAN, s3 : {FALSE}, limitArg : {0, 1},
                  kevCount : {MaxBatchCves}, cache : {"concurrencyOnly"} ]
    /\ s3Record = NULL
    /\ now = 0
    /\ ticks = 0
    /\ requestTimestamps = <<>>
    /\ stat = NoHistory
    /\ throttleState = DEFAULT_THROTTLE
    /\ had429Error = FALSE
    /\ pcMain = "batchLoop"
    /\ req = [i \in Requesters |-> NewRequest(IF i = 0 THEN "idle" ELSE "queued")]
    /\ bulk = NewBulk
    /\ recentResult = NULL
    /\ collect = NoCollect
    /\ thr = NoTransition

\* index.ts (first version):172: cves.slice(i, i + batchSize), as input numbers
Batch(i, n, batchSize) == (i + 1)..Min(i + batchSize, n)

\* index.ts (first version):134-155: the NvdResult of the first version has the
\* fields of the later one but nvd_published
LegacyResult(r) == [f \in DOMAIN r \ {"nvd_published"} |-> r[f]]

\* index.ts (first version):67-155: what a lookup resolves with when it does not
\* retry: the parsed response, or the ERROR result of the catch block
LegacyCompletion(o) ==
    IF IsOk(o) /\ o.parsable
    THEN [threw |-> FALSE, value |-> LegacyResult(parseNvdCveResponse(BodyPatched))]
    ELSE [threw |-> FALSE, value |-> LegacyResult(ErrorResult(LookupFailureMsg(o)))]

\* index.ts (first version):171-177 and 214: the loop test; a batch is sliced, its
\* lookups are started, each sends its request; or the loop ends and the results
\* are returned
BatchStart ==
    /\ pcMain = "batchLoop"
    /\ ~collect.returned
    /\ LET batch == Batch(collect.i, NumCves(cfg), CONCURRENCY(cfg))
       IN  IF collect.i < NumCves(cfg)
           THEN /\ collect' = [collect EXCEPT !.promises = Pending(Cardinality(batch))]
                /\ req' = [i \in Requesters |->
                             IF i \in batch THEN NewRequest("legacy_fetch") ELSE req[i]]
                /\ pcMain' = "batch"
           ELSE /\ collect' = [collect EXCEPT !.returned = TRUE]
                /\ req' = req
                /\ pcMain' = "batchLoop"
    /\ UNCHANGED <<cfg, s3Record, now, ticks, requestTimestamps, stat, throttleState,
                   had429Error, bulk, recentResult, thr>>

\* index.ts (first version):61-155 and 179-205: a response arrives: the lookup
\* sleeps before a retry, or resolves and its callback returns the CveResult
LegacyRespond(i, o) ==
    /\ pcMain = "batch"
    /\ req[i].pc = "legacy_fetch"
    /\ MayAnswer(o)
    /\ stat' = Answered(o)
    /\ IF LookupRetries(o, req[i].retryCount)
       THEN /\ req' = [req EXCEPT ![i].pc = "legacy_backoff",
                                  ![i].wakeAt = now + RetryDelay(req[i].retryCount)]
            /\ collect' = collect
       ELSE /\ req' = [req EXCEPT ![i] = [NewRequest("done") EXCEPT
                                             !.out = Some(LegacyCompletion(o))]]
            /\ collect' = Resolve(collect, i - collect.i,
                                  CveResult(i, LegacyCompletion(o).value))
    /\ UNCHANGED <<cfg, s3Record, now, ticks, requestTimestamps, throttleState,
                   had429Error, pcMain, bulk, recentResult, thr>>

\* index.ts (first version):71-72: the timer of the backoff sleep fires, the
\* earliest timer first, and the lookup calls itself
LegacyBackoffWake(i) ==
    /\ pcMain = "batch"
    /\ req[i].pc = "legacy_backoff"
    /\ \A j \in Lookups : req[j].pc = "legacy_backoff" => req[i].wakeAt <= req[j].wakeAt
    /\ now' = Max(now, req[i].wakeAt)
    /\ req' = [req EXCEPT ![i].pc = "legacy_fetch", ![i].retryCount = @ + 1,
                          ![i].wakeAt = 0]
    /\ UNCHANGED <<cfg, s3Record, ticks, requestTimestamps, stat, throttleState,
                   had429Error, pcMain, bulk, recentResult, collect, thr>>

\* index.ts (first version):205-210 and 171: Promise.all resolves and the batch is
\* appended; when CVEs remain the loop starts its sleep, else i advances at once
BatchSettled ==
    /\ pcMain = "batch"
    /\ \A k \in 1..Len(collect.promises) : collect.promises[k] # NULL
    /\ IF collect.i + CONCURRENCY(cfg) < NumCves(cfg)
       THEN /\ collect' = [collect EXCEPT !.results = @ \o Values(collect.promises),
                                          !.promises = <<>>]
            /\ pcMain' = "batchSleep"
       ELSE /\ collect' = [collect EXCEPT !.results = @ \o Values(collect.promises),
                                          !.promises = <<>>,
                                          !.i = @ + CONCURRENCY(cfg)]
            /\ pcMain' = "batchLoop"
    /\ UNCHANGED <<cfg, s3Record, now, ticks, requestTimestamps, stat, throttleState,
                   had429Error, req, bulk, recentResult, thr>>

\* index.ts (first version):209 and 171: the timer of sleep(DELAY_MS) fires (no
\* other timer is pending then) and i advances
BatchWake ==
    /\ pcMain = "batchSleep"
    /\ now' = now + DELAY_MS(cfg)
    /\ collect' = [collect EXCEPT !.i = @ + CONCURRENCY(cfg)]
    /\ pcMain' = "batchLoop"
    /\ UNCHANGED <<cfg, s3Record, ticks, requestTimestamps, stat, throttleState,
                   had429Error, req, bulk, recentResult, thr>>

\* the steps of checkAllCves: of the pLimit version (index.ts:366-408) and of the
\* batched version
NextCollect ==
    \/ Begin
    \/ \E i \in Lookups : Start(i)
    \/ \E i \in Lookups : Acquire(i)
    \/ \E i \in Lookups : Wake(i)
    \/ \E i \in Lookups : Fetch(i)
    \/ \E i \in Lookups : \E o \in LookupOutcomes : RespondLookup(i, o)
    \/ \E i \in Lookups : BackoffWake(i)
    \/ LookupsSettled
    \/ TimerJump
    \/ BatchStart
    \/ \E i \in Lookups : \E o \in LookupOutcomes : LegacyRespond(i, o)
    \/ \E i \in Lookups : LegacyBackoffWake(i)
    \/ BatchSettled
    \/ BatchWake

\* both versions of checkAllCves
SpecCollect == (Init \/ InitBatched) /\ [][NextCollect]_vars

\* C31: checkAllCves returns exactly one result per input CVE and result i belongs
\* to input CVE i (it has the id of CVE i and the fields the lookup of CVE i
\* resolved with), whatever the order in which the lookups complete and whichever
\* of them end in ERROR; the same holds for every promise resolved so far (promise
\* k of the batch that starts after collect.i inputs is the one of input i + k)
C31_OneResultPerCve ==
    /\ \A k \in 1..Len(collect.promises) :
          collect.promises[k] # NULL =>
             /\ req[collect.i + k].out # NULL
             /\ collect.promises[k][1] =
                   CveResult(collect.i + k, req[collect.i + k].out[1].value)
             /\ collect.promises[k][1].cve_id = CveId(collect.i + k)
    /\ Len(collect.results) <= NumCves(cfg)
    /\ \A k \in 1..Len(collect.results) :
          /\ collect.results[k].cve_id = CveId(k)
          /\ req[k].out # NULL
          /\ collect.results[k] = CveResult(k, req[k].out[1].value)
    /\ collect.returned => Len(collect.results) = NumCves(cfg)

\* checkAllCves has returned two results or more; a lookup had completed before an
\* earlier one, and an ERROR result stands before a result that is not an ERROR
C31_Witness ==
    /\ collect.returned
    /\ collect.outOfOrder
    /\ Len(collect.results) >= 2
    /\ collect.results[1].status = "ERROR"
    /\ collect.results[2].status # "ERROR"

-----------------------------------------------------------------------------
(* fetchRecentCves called with any maxResults.  The state at the call is the one   *)
(* of a run without S3 cache whose lookups were each answered at once, without a   *)
(* failure: one dispatch per lookup at time 0.                                      *)

InitPaging ==
    /\ cfg \in {c \in Configs : ~c.s3 /\ c.limitArg = 0}
    /\ s3Record = NULL
    /\ now = 0
    /\ ticks = 0
    /\ requestTimestamps = [k \in 1..NumCves(cfg) |-> 0]
    /\ stat = [NoHistory EXCEPT !.dispatched = NumCves(cfg), !.calls = NumCves(cfg)]
    /\ throttleState = [DEFAULT_THROTTLE EXCEPT !.concurrency = DefaultConcurrency(cfg.apiKey)]
    /\ had429Error = FALSE
    /\ pcMain = "bulk"
    /\ req = [i \in Requesters |->
                IF i = 0 THEN NewRequest("limiter")
                ELSE [NewRequest("done") EXCEPT !.out = Some(LookupResult(OkOutcome, BodyPatched))]]
    /\ \E m \in {0, 1, DefaultMaxResults} : bulk = [NewBulk EXCEPT !.maxResults = m]
    /\ recentResult = NULL
    /\ collect =
         LET values == [k \in 1..NumCves(cfg) |->
                          CveResult(k, LookupResult(OkOutcome, BodyPatched).value)]
         IN  [NoCollect EXCEPT !.promises = [k \in 1..NumCves(cfg) |-> Some(values[k])],
                               !.results = values,
                               !.completed = NumCves(cfg),
                               !.returned = TRUE]
    /\ thr = NoTransition

\* nvd.ts:965-1062: the steps of fetchRecentCves, and its return to main
NextPaging ==
    \/ Acquire(0)
    \/ Wake(0)
    \/ Fetch(0)
    \/ \E o \in PageOutcomes(bulk.startIndex) : RespondPage(o)
    \/ BackoffWake(0)
    \/ CatchWake
    \/ BulkSettled
    \/ TimerJump

SpecPaging == InitPaging /\ [][NextPaging]_vars /\ WF_vars(NextPaging)

\* C32: fetchRecentCves terminates; startIndex grows by exactly RESULTS_PER_PAGE
\* with each fetched page, whatever the page held; when it returns it has fetched
\* one page at least (also with maxResults 0 or totalResults 0); and a page that
\* reports the same totalResults as the page before it (or is the first) is at
\* most page number max(1, ceil(totalResults / RESULTS_PER_PAGE))
C32_PagingTerminates ==
    /\ (pcMain = "bulk") ~> (pcMain # "bulk")
    /\ [](pcMain = "bulk" => bulk.startIndex = RESULTS_PER_PAGE * bulk.pageCount)
    /\ [][(pcMain' = "bulk" /\ bulk'.pageCount # bulk.pageCount) =>
              /\ bulk'.pageCount = bulk.pageCount + 1
              /\ bulk'.startIndex = bulk.startIndex + RESULTS_PER_PAGE]_vars
    /\ []((pcMain = "bulk" /\ req[0].pc = "done") => bulk.pageCount >= 1)
    /\ [][(/\ pcMain' = "bulk"
           /\ bulk'.pageCount # bulk.pageCount
           /\ (bulk.pageCount = 0 \/ bulk'.totalResults = bulk.totalResults)) =>
              bulk'.pageCount <=
                 Max(1, (bulk'.totalResults + RESULTS_PER_PAGE - 1) \div RESULTS_PER_PAGE)]_vars

\* fetchRecentCves is about to return after two pages that both reported 2001
\* results and held one item each: startIndex is 4000
C32_Witness ==
    /\ pcMain = "bulk"
    /\ req[0].pc = "done"
    /\ bulk.pageCount = 2
    /\ bulk.totalResults = RESULTS_PER_PAGE + 1
    /\ Len(bulk.allCves) = 2
    /\ bulk.startIndex = 2 * RESULTS_PER_PAGE

-----------------------------------------------------------------------------
(* The results of checkNvdPatchStatus and of parseNvdCveResponse.                  *)

\* C33: every result is consistent: status is ERROR exactly when error is not
\* null; status is PATCHED exactly when has_patch is true; a result made from a
\* response has in patch_urls the url of each reference tagged Patch, one entry
\* per reference and in reference order; patch_urls is empty when has_patch is
\* false; an ERROR result has the three flags false and null CVSS fields
C33_ResultConsistent ==
    thr.op \in {"parse", "lookup"} =>
        LET r == thr.output
            tagged == SelectSeq(ReferencesOf(thr.input), LAMBDA x : "Patch" \in x.tags)
        IN  /\ (r.status = "ERROR") <=> (r.error # NULL)
            /\ (r.status = "PATCHED") <=> r.has_patch
            /\ r.has_patch \in BOOLEAN
            /\ r.error = NULL =>
                  /\ Len(r.patch_urls) = Len(tagged)
                  /\ \A k \in 1..Len(tagged) : r.patch_urls[k] = tagged[k].url
            /\ ~r.has_patch => r.patch_urls = <<>>
            /\ r.status = "ERROR" =>
                  /\ ~r.has_patch
                  /\ ~r.has_vendor_advisory
                  /\ ~r.has_mitigation
                  /\ r.cvss_score = NULL
                  /\ r.cvss_severity = NULL

\* a lookup was answered with a body whose two references are both tagged Patch and
\* have different urls: the result is PATCHED with the two urls in reference order
C33_Witness ==
    /\ thr.op = "lookup"
    /\ thr.output.status = "PATCHED"
    /\ Len(thr.output.patch_urls) = 2
    /\ thr.output.patch_urls[1] = "u2"
    /\ thr.output.patch_urls[2] = "u1"
    /\ ReferencesOf(thr.input)[1].url = "u2"

====
